---- MODULE Spec2Model ----
(***************************************************************************)
(* A model of the ECS runtime: the World facade (src/ecs/world.py), the    *)
(* component columns and the component registry (src/ecs/component.py),    *)
(* the growable matrix behind a column (src/core/array_wrapper.py), the    *)
(* system base class (src/core/system.py) and the event bus                *)
(* (src/core/event.py).                                                    *)
(*                                                                         *)
(* Python dicts are functions whose DOMAIN is the key set; where the code  *)
(* depends on a dict's insertion order the keys are kept as a sequence.    *)
(* Python lists are sequences; a 0-based index i of the code is position   *)
(* i + 1 of the sequence.                                                  *)
(***************************************************************************)
EXTENDS Integers, Sequences, FiniteSets, TLC

(***************************************************************************)
(* Bounds of the model.                                                    *)
(***************************************************************************)
\* cap on the number of World calls that change world_version or raise
MaxCalls == 4
\* the entities given to a Component used on its own are 0..MaxEntity
MaxEntity == 4
\* caps on the subscriptions, the Event objects, the process_async calls (and
\* the World.update calls) and the registered systems of the runs of the
\* event bus and of the update loop
MaxSubscriptions == 3
MaxEvents == 4
MaxDrains == 2
MaxSystems == 2
\* cap on the subscriptions removed
MaxRemoved == 1
\* cap on the calls that change world_version or raise, made on two Worlds
\* together
MaxTwoCalls == 2
\* cap on the sum of the six
MaxBusSize == 8

(***************************************************************************)
(* Program constants.                                                      *)
(***************************************************************************)
\* Component.initial_capacity
initial_capacity == 3
\* ArrayWrapper.scale_factor = 1.5 = ScaleNum / ScaleDen
ScaleNum == 3
ScaleDen == 2
\* np.nan, the value of a row lane that holds no entity value; the values
\* written by callers are naturals, so -1 stands apart from all of them
NaN == -1

\* the component types of the tests: DummyA (2 lanes) and DummyB (1 lane)
CompTypes == {"A", "B"}
dimensions(t) == IF t = "A" THEN 2 ELSE 1

(***************************************************************************)
(* dict and list primitives                                                *)
(***************************************************************************)
EmptyDict == [x \in {} |-> 0]
Put(f, k, v) == [x \in (DOMAIN f) \cup {k} |-> IF x = k THEN v ELSE f[x]]
Del(f, k) == [x \in (DOMAIN f) \ {k} |-> f[x]]
Last(s) == s[Len(s)]
Front(s) == SubSeq(s, 1, Len(s) - 1)
ToSet(s) == {s[i] : i \in 1..Len(s)}
\* the keys of a dict built from a list of keys: first occurrences, in order
RECURSIVE DictKeys(_)
DictKeys(s) ==
  IF s = <<>> THEN <<>>
  ELSE LET f == DictKeys(Front(s))
       IN IF Last(s) \in ToSet(f) THEN f ELSE Append(f, Last(s))

\* Python's & and | on non-negative ints
RECURSIVE BitAnd(_, _)
BitAnd(a, b) ==
  IF a = 0 \/ b = 0 THEN 0
  ELSE (a % 2) * (b % 2) + 2 * BitAnd(a \div 2, b \div 2)
RECURSIVE BitOr(_, _)
BitOr(a, b) ==
  IF a = 0 THEN b
  ELSE IF b = 0 THEN a
  ELSE (IF a % 2 = 1 \/ b % 2 = 1 THEN 1 ELSE 0) + 2 * BitOr(a \div 2, b \div 2)

(***************************************************************************)
(* ArrayWrapper (the matrix behind a column): a sequence of rows           *)
(***************************************************************************)
NanRow(cols) == [j \in 1..cols |-> NaN]
\* np.full((capacity, dims), np.nan)
create_array(capacity, dims) == [i \in 1..capacity |-> NanRow(dims)]

\* ensure_capacity: new_rows = max(min_rows, current_rows * 1.5).  The product
\* is a float; max returns it when it is the strictly larger argument, and
\* np.full then raises TypeError (a float is no array dimension).  When
\* min_rows is at least the product, max returns the int min_rows.
ensure_capacity(arr, cols, min_rows) ==
  LET current_rows == Len(arr)
  IN IF min_rows <= current_rows
       THEN [raised |-> FALSE, array |-> arr]
     ELSE IF ScaleDen * min_rows >= ScaleNum * current_rows
       THEN [raised |-> FALSE,
             array |-> arr \o create_array(min_rows - current_rows, cols)]
     ELSE [raised |-> TRUE, array |-> arr]

(***************************************************************************)
(* Component: one column per component type                                *)
(***************************************************************************)
\* Component.__init__
\* entity_to_index is a dict: keys lists its keys in the dict's iteration order
Component_init(dims) ==
  [array |-> create_array(initial_capacity, dims),
   entity_to_index |-> EmptyDict,
   keys |-> <<>>,
   free_slots |-> <<>>,
   size |-> 0]

\* A value given by a caller: None, a bare number, or a tuple.
NoneVal == [kind |-> "none", v |-> <<>>]
NumVal(n) == [kind |-> "num", v |-> <<n>>]
TupVal(t) == [kind |-> "tuple", v |-> t]
\* Component._default: a tuple of zeros
default(dims) == [j \in 1..dims |-> 0]
\* the first lines of add / update_value: None -> default, number -> 1-tuple
Widen(val, dims) == IF val.kind = "none" THEN default(dims) ELSE val.v

\* Component.add: [raised, col]
Component_add(col, dims, entity_id, val) ==
  LET v == Widen(val, dims)
      reuse == col.free_slots # <<>>
      idx == IF reuse THEN Last(col.free_slots) ELSE col.size
      grown == IF ~reuse /\ col.size >= Len(col.array)
                 THEN ensure_capacity(col.array, dims, col.size + 1)
                 ELSE [raised |-> FALSE, array |-> col.array]
  IN IF Len(v) # dims THEN [raised |-> TRUE, col |-> col]
     ELSE IF grown.raised THEN [raised |-> TRUE, col |-> col]
     ELSE [raised |-> FALSE,
           col |-> [array |-> [grown.array EXCEPT ![idx + 1] = v],
                    entity_to_index |-> Put(col.entity_to_index, entity_id, idx),
                    keys |-> IF entity_id \in DOMAIN col.entity_to_index
                               THEN col.keys ELSE Append(col.keys, entity_id),
                    free_slots |-> IF reuse THEN Front(col.free_slots)
                                   ELSE col.free_slots,
                    size |-> col.size + 1]]

\* a faulty removal: the row of the removed entity is put on the free list
Component_remove_frees_idx(col, entity_id) ==
  IF entity_id \notin DOMAIN col.entity_to_index THEN col
  ELSE LET idx == col.entity_to_index[entity_id]
           map1 == Del(col.entity_to_index, entity_id)
           keys1 == SelectSeq(col.keys, LAMBDA e : e # entity_id)
           last_index == col.size - 1
           owners == SelectSeq(keys1, LAMBDA e : map1[e] = last_index)
           found == idx # last_index /\ owners # <<>>
       IN [array |-> IF found
                       THEN [col.array EXCEPT ![idx + 1] = col.array[last_index + 1]]
                       ELSE col.array,
           entity_to_index |-> IF found
                                 THEN [map1 EXCEPT ![Head(owners)] = idx]
                                 ELSE map1,
           keys |-> keys1,
           free_slots |-> Append(col.free_slots, idx),
           size |-> col.size - 1]
\* a faulty removal: the last live row is not copied into the vacated row
Component_remove_no_copy(col, entity_id) ==
  IF entity_id \notin DOMAIN col.entity_to_index THEN col
  ELSE LET idx == col.entity_to_index[entity_id]
           map1 == Del(col.entity_to_index, entity_id)
           keys1 == SelectSeq(col.keys, LAMBDA e : e # entity_id)
           last_index == col.size - 1
           owners == SelectSeq(keys1, LAMBDA e : map1[e] = last_index)
           found == idx # last_index /\ owners # <<>>
       IN [array |-> col.array,
           entity_to_index |-> IF found
                                 THEN [map1 EXCEPT ![Head(owners)] = idx]
                                 ELSE map1,
           keys |-> keys1,
           free_slots |-> Append(col.free_slots, last_index),
           size |-> col.size - 1]

\* Component.remove: the entity owning the last live row is the first key of
\* entity_to_index, in iteration order, that maps to it; it is moved into the
\* vacated row
Component_remove(col, entity_id) ==
  IF entity_id \notin DOMAIN col.entity_to_index THEN col
  ELSE LET idx == col.entity_to_index[entity_id]
           map1 == Del(col.entity_to_index, entity_id)
           keys1 == SelectSeq(col.keys, LAMBDA e : e # entity_id)
           last_index == col.size - 1
           owners == SelectSeq(keys1, LAMBDA e : map1[e] = last_index)
           found == idx # last_index /\ owners # <<>>
           swapped_entity == Head(owners)
       IN [array |-> IF found
                       THEN [col.array EXCEPT ![idx + 1] = col.array[last_index + 1]]
                       ELSE col.array,
           entity_to_index |-> IF found
                                 THEN [map1 EXCEPT ![swapped_entity] = idx]
                                 ELSE map1,
           keys |-> keys1,
           free_slots |-> Append(col.free_slots, last_index),
           size |-> col.size - 1]

\* Component.update_value: [raised, col]; len(None) raises TypeError
Component_update_value(col, dims, entity_id, val) ==
  IF entity_id \notin DOMAIN col.entity_to_index THEN [raised |-> TRUE, col |-> col]
  ELSE IF val.kind = "none" \/ Len(val.v) # dims THEN [raised |-> TRUE, col |-> col]
  ELSE [raised |-> FALSE,
        col |-> [col EXCEPT !.array[col.entity_to_index[entity_id] + 1] = val.v]]

\* Component.get_value (called for an entity that has a row)
Component_get_value(col, entity_id) == col.array[col.entity_to_index[entity_id] + 1]

(***************************************************************************)
(* ComponentRegistry: reg = [components, bits, next_bit]                   *)
(*   components: the registered types in registration order (the instance  *)
(*   of a type is its column), bits: _component_bits, next_bit: _next_bit  *)
(***************************************************************************)
Registry_init == [components |-> <<>>, bits |-> EmptyDict, next_bit |-> 1]

\* a faulty assignment: the next bit is the last one plus one
get_bit_increment(reg, comp_type) ==
  IF comp_type \in DOMAIN reg.bits THEN reg
  ELSE [reg EXCEPT !.bits = Put(reg.bits, comp_type, reg.next_bit),
                   !.next_bit = reg.next_bit + 1]
\* ComponentRegistry.get_bit: the registry after the call
get_bit(reg, comp_type) ==
  IF comp_type \in DOMAIN reg.bits THEN reg
  ELSE [reg EXCEPT !.bits = Put(reg.bits, comp_type, reg.next_bit),
                   !.next_bit = reg.next_bit * 2]
\* ... and the bit it returns
bit_of(reg, comp_type) == get_bit(reg, comp_type).bits[comp_type]

\* ComponentRegistry.compute_signature: [reg, sig]
RECURSIVE compute_signature(_, _)
compute_signature(reg, comps) ==
  IF comps = <<>> THEN [reg |-> reg, sig |-> 0]
  ELSE LET front == compute_signature(reg, Front(comps))
           r1 == get_bit(front.reg, Last(comps))
       IN [reg |-> r1, sig |-> BitOr(front.sig, r1.bits[Last(comps)])]

(***************************************************************************)
(* Archetype: [signature, entities, storage, index_map]                    *)
(*   storage[t] is the list of component references; the reference to the  *)
(*   one instance of type t is written t.                                  *)
(***************************************************************************)
Archetype_init(signature) ==
  [signature |-> signature, entities |-> <<>>, storage |-> EmptyDict,
   index_map |-> EmptyDict]

\* Archetype.add_entity; comps is the key list of the components dict
RECURSIVE StorageAppend(_, _)
StorageAppend(storage, comps) ==
  IF comps = <<>> THEN storage
  ELSE LET s1 == StorageAppend(storage, Front(comps))
           t == Last(comps)
       IN Put(s1, t, Append(IF t \in DOMAIN s1 THEN s1[t] ELSE <<>>, t))
\* a faulty insertion: the storage lists are left as they are
Archetype_add_entity_no_storage(a, entity_id, comps) ==
  [signature |-> a.signature,
   entities |-> Append(a.entities, entity_id),
   storage |-> a.storage,
   index_map |-> Put(a.index_map, entity_id, Len(a.entities))]
\* Archetype.add_entity
Archetype_add_entity(a, entity_id, comps) ==
  [signature |-> a.signature,
   entities |-> Append(a.entities, entity_id),
   storage |-> StorageAppend(a.storage, comps),
   index_map |-> Put(a.index_map, entity_id, Len(a.entities))]

\* a faulty removal: the entity moved into the gap keeps its old index
Archetype_remove_entity_stale_index(a, entity_id) ==
  IF entity_id \notin DOMAIN a.index_map THEN a
  ELSE LET index == a.index_map[entity_id]
           last_index == Len(a.entities) - 1
           last_entity == a.entities[last_index + 1]
           swap == index # last_index
       IN [signature |-> a.signature,
           entities |-> Front(IF swap
                                THEN [a.entities EXCEPT ![index + 1] = last_entity]
                                ELSE a.entities),
           storage |-> [t \in DOMAIN a.storage |-> Front(a.storage[t])],
           index_map |-> Del(a.index_map, entity_id)]
\* a faulty removal: the entities after the removed one move up by one
Archetype_remove_entity_shift(a, entity_id) ==
  IF entity_id \notin DOMAIN a.index_map THEN a
  ELSE LET index == a.index_map[entity_id]
           entities == SelectSeq(a.entities, LAMBDA e : e # entity_id)
       IN [signature |-> a.signature,
           entities |-> entities,
           storage |-> [t \in DOMAIN a.storage |-> Front(a.storage[t])],
           index_map |-> [e \in ToSet(entities) |->
                            IF a.index_map[e] > index THEN a.index_map[e] - 1
                            ELSE a.index_map[e]]]

\* Archetype.remove_entity: swap-and-pop
Archetype_remove_entity(a, entity_id) ==
  IF entity_id \notin DOMAIN a.index_map THEN a
  ELSE LET index == a.index_map[entity_id]
           last_index == Len(a.entities) - 1
           last_entity == a.entities[last_index + 1]
           swap == index # last_index
       IN [signature |-> a.signature,
           entities |-> Front(IF swap
                                THEN [a.entities EXCEPT ![index + 1] = last_entity]
                                ELSE a.entities),
           storage |-> [t \in DOMAIN a.storage |->
                          Front(IF swap
                                  THEN [a.storage[t] EXCEPT
                                          ![index + 1] = a.storage[t][last_index + 1]]
                                  ELSE a.storage[t])],
           index_map |-> Del(IF swap
                               THEN [a.index_map EXCEPT ![last_entity] = index]
                               ELSE a.index_map, entity_id)]

(***************************************************************************)
(* World.  The operations are written on a record w of the World's fields  *)
(*   archetypes          the values of the dict, in insertion order        *)
(*   entity_to_archetype entity id -> signature of its Archetype           *)
(*   entity_components   entity id -> key list of its {type: instance} dict*)
(*   columns             registered type -> its Component instance         *)
(* and return [w, raised, ret]: the fields after the call, whether the     *)
(* call raised, and the returned value (<<>> for None).                    *)
(***************************************************************************)
World_init ==
  [archetypes |-> <<>>,
   entity_to_archetype |-> EmptyDict,
   entity_components |-> EmptyDict,
   free_ids |-> <<>>,
   next_entity_id |-> 0,
   num_entities |-> 0,
   query_cache |-> EmptyDict,
   world_version |-> 0,
   registry |-> Registry_init,
   columns |-> EmptyDict]

Returns(w, ret) == [w |-> w, raised |-> FALSE, ret |-> ret]
Raises(w) == [w |-> w, raised |-> TRUE, ret |-> <<>>]

\* a faulty invalidation: it does nothing
invalidate_nothing(w) == w

\* World._invalidate_query_cache
invalidate_query_cache(w) ==
  [w EXCEPT !.query_cache = EmptyDict, !.world_version = w.world_version + 1]

Signatures(w) == {w.archetypes[i].signature : i \in 1..Len(w.archetypes)}
\* position of self.archetypes[signature]
ArchIdx(w, signature) ==
  CHOOSE i \in 1..Len(w.archetypes) : w.archetypes[i].signature = signature

\* World._get_archetype: the world after the call (the archetype is then
\* w.archetypes[ArchIdx(w, signature)])
get_archetype(w, signature) ==
  IF signature \in Signatures(w) THEN w
  ELSE LET reg1 == compute_signature(w.registry, w.registry.components).reg
           keys == {t \in ToSet(reg1.components) :
                      BitAnd(signature, reg1.bits[t]) # 0}
       IN [w EXCEPT !.registry = reg1,
                    !.archetypes = Append(w.archetypes,
                       [Archetype_init(signature) EXCEPT
                          !.storage = [t \in keys |-> <<>>]])]

\* World.register_component; with_instance: the caller supplies an instance
register_component(w, comp_type, with_instance) ==
  IF comp_type \notin ToSet(w.registry.components)
    THEN Returns([w EXCEPT
           !.registry.components = Append(w.registry.components, comp_type),
           !.columns = Put(w.columns, comp_type,
                           Component_init(dimensions(comp_type)))], <<>>)
  ELSE IF with_instance THEN Raises(w)
  ELSE Returns(w, <<>>)

\* World.register_component called with an instance the caller holds: the
\* registry stores the reference it is given; column is the instance as it is
register_instance(w, comp_type, column) ==
  IF comp_type \notin ToSet(w.registry.components)
    THEN Returns([w EXCEPT
           !.registry.components = Append(w.registry.components, comp_type),
           !.columns = Put(w.columns, comp_type, column)], <<>>)
  ELSE Raises(w)
\* World.get_component_instance: the world after the call
get_component_instance(w, comp_type) ==
  register_component(w, comp_type, FALSE).w

RECURSIVE RegisterEach(_, _)
RegisterEach(w, comps) ==
  IF comps = <<>> THEN w
  ELSE RegisterEach(get_component_instance(w, Head(comps)), Tail(comps))

\* the loop of create_entity over comp_data.items(): [raised, columns]
RECURSIVE AddEach(_, _, _, _)
AddEach(cols, keys, entity_id, data) ==
  IF keys = <<>> THEN [raised |-> FALSE, columns |-> cols]
  ELSE LET t == Head(keys)
           init_val == IF t \in DOMAIN data THEN data[t] ELSE NoneVal
           r == Component_add(cols[t], dimensions(t), entity_id, init_val)
       IN IF r.raised THEN [raised |-> TRUE, columns |-> cols]
          ELSE AddEach([cols EXCEPT ![t] = r.col], Tail(keys), entity_id, data)

\* a faulty allocation: it reuses the id that has been free longest
allocate_id_oldest(w) ==
  IF w.free_ids # <<>>
    THEN [w |-> [w EXCEPT !.free_ids = Tail(w.free_ids)],
          entity_id |-> Head(w.free_ids)]
  ELSE [w |-> [w EXCEPT !.next_entity_id = w.next_entity_id + 1],
        entity_id |-> w.next_entity_id]

\* a faulty allocation: the id taken from free_ids stays on the list
allocate_id_keep_free(w) ==
  IF w.free_ids # <<>>
    THEN [w |-> w, entity_id |-> Last(w.free_ids)]
  ELSE [w |-> [w EXCEPT !.next_entity_id = w.next_entity_id + 1],
        entity_id |-> w.next_entity_id]
\* the id allocation of create_entity: [w, entity_id]
allocate_id(w) ==
  IF w.free_ids # <<>>
    THEN [w |-> [w EXCEPT !.free_ids = Front(w.free_ids)],
          entity_id |-> Last(w.free_ids)]
  ELSE [w |-> [w EXCEPT !.next_entity_id = w.next_entity_id + 1],
        entity_id |-> w.next_entity_id]

\* World.create_entity; data is component_initial_data (None is the empty dict)
create_entity(w, components, data) ==
  LET keys == DictKeys(components)
      w1 == RegisterEach(w, components)
      alloc == allocate_id(w1)
      entity_id == alloc.entity_id
      w2 == alloc.w
      cs == compute_signature(w2.registry, components)
      w3 == get_archetype([w2 EXCEPT !.registry = cs.reg], cs.sig)
      w4 == [w3 EXCEPT
               !.archetypes[ArchIdx(w3, cs.sig)] =
                  Archetype_add_entity(@, entity_id, keys),
               !.entity_to_archetype = Put(w3.entity_to_archetype, entity_id, cs.sig),
               !.entity_components = Put(w3.entity_components, entity_id, keys)]
      added == AddEach(w4.columns, keys, entity_id, data)
      w5 == [w4 EXCEPT !.columns = added.columns]
  IN IF added.raised THEN Raises(w5)
     ELSE Returns([invalidate_query_cache(w5) EXCEPT
                     !.num_entities = w5.num_entities + 1], <<entity_id>>)

\* a faulty loop: only the first component of the entity gives up its row
RemoveEach_first_only(cols, keys, entity_id) ==
  IF keys = <<>> THEN cols
  ELSE [cols EXCEPT ![Head(keys)] = Component_remove(@, entity_id)]
\* the loop of remove_entity over entity_components[entity_id]
RECURSIVE RemoveEach(_, _, _)
RemoveEach(cols, keys, entity_id) ==
  IF keys = <<>> THEN cols
  ELSE RemoveEach([cols EXCEPT ![Head(keys)] = Component_remove(@, entity_id)],
                  Tail(keys), entity_id)

\* a faulty removal: an id that is not live is pushed onto free_ids again
remove_entity_push_again(w, entity_id) ==
  IF entity_id \notin DOMAIN w.entity_to_archetype
    THEN Returns([w EXCEPT !.free_ids = Append(w.free_ids, entity_id)], <<>>)
  ELSE LET sig == w.entity_to_archetype[entity_id]
           keys == w.entity_components[entity_id]
           w1 == [w EXCEPT
                    !.entity_to_archetype = Del(w.entity_to_archetype, entity_id),
                    !.archetypes[ArchIdx(w, sig)] =
                       Archetype_remove_entity(@, entity_id),
                    !.columns = RemoveEach(w.columns, keys, entity_id),
                    !.entity_components = Del(w.entity_components, entity_id),
                    !.free_ids = Append(w.free_ids, entity_id)]
       IN Returns([invalidate_query_cache(w1) EXCEPT
                     !.num_entities = w1.num_entities - 1], <<>>)
\* World.remove_entity
remove_entity(w, entity_id) ==
  IF entity_id \notin DOMAIN w.entity_to_archetype THEN Returns(w, <<>>)
  ELSE LET sig == w.entity_to_archetype[entity_id]
           keys == w.entity_components[entity_id]
           w1 == [w EXCEPT
                    !.entity_to_archetype = Del(w.entity_to_archetype, entity_id),
                    !.archetypes[ArchIdx(w, sig)] =
                       Archetype_remove_entity(@, entity_id),
                    !.columns = RemoveEach(w.columns, keys, entity_id),
                    !.entity_components = Del(w.entity_components, entity_id),
                    !.free_ids = Append(w.free_ids, entity_id)]
       IN Returns([invalidate_query_cache(w1) EXCEPT
                     !.num_entities = w1.num_entities - 1], <<>>)

\* a faulty migration: the entity is not removed from its old archetype
Migrate_staying(w, entity_id, current) ==
  LET w1 == [w EXCEPT !.entity_components[entity_id] = current]
      cs == compute_signature(w1.registry, current)
      w2 == get_archetype([w1 EXCEPT !.registry = cs.reg], cs.sig)
  IN [w2 EXCEPT
        !.archetypes[ArchIdx(w2, cs.sig)] = Archetype_add_entity(@, entity_id, current),
        !.entity_to_archetype[entity_id] = cs.sig]

\* the archetype migration shared by add_component and remove_component:
\* leave the old archetype, store the new key list, enter the archetype of
\* the new signature
Migrate(w, entity_id, current) ==
  LET old == w.entity_to_archetype[entity_id]
      w1 == [w EXCEPT
               !.archetypes[ArchIdx(w, old)] = Archetype_remove_entity(@, entity_id),
               !.entity_components[entity_id] = current]
      cs == compute_signature(w1.registry, current)
      w2 == get_archetype([w1 EXCEPT !.registry = cs.reg], cs.sig)
  IN [w2 EXCEPT
        !.archetypes[ArchIdx(w2, cs.sig)] = Archetype_add_entity(@, entity_id, current),
        !.entity_to_archetype[entity_id] = cs.sig]

\* an add_component that does not look whether the entity has the type
add_component_unchecked(w, entity_id, comp_type, initial_data) ==
  IF entity_id \notin DOMAIN w.entity_components THEN Raises(w)
  ELSE LET w1 == get_component_instance(w, comp_type)
           w2 == Migrate(w1, entity_id,
                         Append(w.entity_components[entity_id], comp_type))
           r == Component_add(w2.columns[comp_type], dimensions(comp_type),
                              entity_id, initial_data)
       IN IF r.raised THEN Raises(w2)
          ELSE Returns(invalidate_query_cache(
                         [w2 EXCEPT !.columns[comp_type] = r.col]), <<>>)
\* World.add_component
add_component(w, entity_id, comp_type, initial_data) ==
  IF entity_id \notin DOMAIN w.entity_components THEN Raises(w)
  ELSE IF comp_type \in ToSet(w.entity_components[entity_id]) THEN Raises(w)
  ELSE LET w1 == get_component_instance(w, comp_type)
           w2 == Migrate(w1, entity_id,
                         Append(w.entity_components[entity_id], comp_type))
           r == Component_add(w2.columns[comp_type], dimensions(comp_type),
                              entity_id, initial_data)
       IN IF r.raised THEN Raises(w2)
          ELSE Returns(invalidate_query_cache(
                         [w2 EXCEPT !.columns[comp_type] = r.col]), <<>>)

\* a faulty removal: the entity stays mapped to the archetype it has left
remove_component_stale_archetype(w, entity_id, comp_type) ==
  IF entity_id \notin DOMAIN w.entity_components THEN Raises(w)
  ELSE IF comp_type \notin ToSet(w.entity_components[entity_id]) THEN Returns(w, <<>>)
  ELSE LET w1 == Migrate(w, entity_id,
                         SelectSeq(w.entity_components[entity_id],
                                   LAMBDA t : t # comp_type))
           w2 == get_component_instance(w1, comp_type)
       IN Returns(invalidate_query_cache(
                    [w2 EXCEPT !.columns[comp_type] =
                                  Component_remove(@, entity_id),
                               !.entity_to_archetype[entity_id] =
                                  w.entity_to_archetype[entity_id]]), <<>>)
\* a faulty removal: the row of the entity stays in the column
remove_component_keep_row(w, entity_id, comp_type) ==
  IF entity_id \notin DOMAIN w.entity_components THEN Raises(w)
  ELSE IF comp_type \notin ToSet(w.entity_components[entity_id]) THEN Returns(w, <<>>)
  ELSE LET w1 == Migrate(w, entity_id,
                         SelectSeq(w.entity_components[entity_id],
                                   LAMBDA t : t # comp_type))
           w2 == get_component_instance(w1, comp_type)
       IN Returns(invalidate_query_cache(w2), <<>>)
\* World.remove_component
remove_component(w, entity_id, comp_type) ==
  IF entity_id \notin DOMAIN w.entity_components THEN Raises(w)
  ELSE IF comp_type \notin ToSet(w.entity_components[entity_id]) THEN Returns(w, <<>>)
  ELSE LET w1 == Migrate(w, entity_id,
                         SelectSeq(w.entity_components[entity_id],
                                   LAMBDA t : t # comp_type))
           w2 == get_component_instance(w1, comp_type)
       IN Returns(invalidate_query_cache(
                    [w2 EXCEPT !.columns[comp_type] =
                                  Component_remove(@, entity_id)]), <<>>)

\* a faulty scan: it takes the archetypes whose signature equals the mask
\* instead of those whose signature contains it
RECURSIVE Scan_equal_signature(_, _, _)
Scan_equal_signature(archs, query_mask, required) ==
  IF archs = <<>> THEN <<>>
  ELSE LET a == Head(archs)
           rows == IF a.signature = query_mask
                     THEN [idx \in 1..Len(a.entities) |->
                             <<a.entities[idx],
                               [t \in ToSet(required) |-> a.storage[t][idx]]>>]
                     ELSE <<>>
       IN rows \o Scan_equal_signature(Tail(archs), query_mask, required)

\* the scan of World.query over the archetypes, in dict order
RECURSIVE Scan(_, _, _)
Scan(archs, query_mask, required) ==
  IF archs = <<>> THEN <<>>
  ELSE LET a == Head(archs)
           rows == IF BitAnd(a.signature, query_mask) = query_mask
                     THEN [idx \in 1..Len(a.entities) |->
                             <<a.entities[idx],
                               [t \in ToSet(required) |-> a.storage[t][idx]]>>]
                     ELSE <<>>
       IN rows \o Scan(Tail(archs), query_mask, required)

\* archetype.storage[comp_type][idx] raises KeyError / IndexError
ScanRaises(w, query_mask, required) ==
  \E i \in 1..Len(w.archetypes) :
     LET a == w.archetypes[i]
     IN /\ BitAnd(a.signature, query_mask) = query_mask
        /\ a.entities # <<>>
        /\ \E t \in ToSet(required) :
              t \notin DOMAIN a.storage \/ Len(a.storage[t]) < Len(a.entities)

\* World.query
query(w, required) ==
  LET cs == compute_signature(w.registry, required)
      query_mask == cs.sig
      w1 == [w EXCEPT !.registry = cs.reg]
      hit == /\ query_mask \in DOMAIN w.query_cache
             /\ w.query_cache[query_mask].version = w.world_version
      results == Scan(w1.archetypes, query_mask, required)
  IN IF hit THEN Returns(w1, w.query_cache[query_mask].result)
     ELSE IF ScanRaises(w1, query_mask, required) THEN Raises(w1)
     ELSE Returns([w1 EXCEPT !.query_cache =
                      Put(w.query_cache, query_mask,
                          [result |-> results, version |-> w.world_version])],
                  results)

(***************************************************************************)
(* EventBus.  The operations are written on a record b                     *)
(*   subscribers          event type -> list of handlers (_subscribers)    *)
(*   current_async_queue, next_async_queue   lists of events               *)
(*   events               every Event object published so far; an event is *)
(*                        written as its position in this list, and the    *)
(*                        entry records its type, who published it and     *)
(*                        when, every time a drain reached it (seen) and   *)
(*                        every handler call made with it (calls)          *)
(*   removed              the number of subscriptions removed so far       *)
(*   raised               an exception is propagating                      *)
(*   log                  the handler calls and system updates made by the *)
(*                        call in progress, in the order they were made    *)
(* at = [drain, tick] tells which drain (process_async call) and which     *)
(* World.update call is running, 0 for none.                               *)
(***************************************************************************)
EventBus_init ==
  [subscribers |-> EmptyDict,
   current_async_queue |-> <<>>,
   next_async_queue |-> <<>>,
   events |-> <<>>,
   removed |-> 0,
   raised |-> FALSE,
   log |-> <<>>]

\* the handlers subscribed to the type of an event: self._subscribers.get(type, [])
subscribers_get(b, event_type) ==
  IF event_type \in DOMAIN b.subscribers THEN b.subscribers[event_type] ELSE <<>>

\* EventBus.subscribe
subscribe(b, event_type, handler) ==
  [b EXCEPT !.subscribers =
     Put(b.subscribers, event_type, Append(subscribers_get(b, event_type), handler))]

\* EventBus.unsubscribe: list.remove(handler) takes out the first entry equal
\* to handler and raises ValueError when there is none; nothing is done for
\* an event type that is not a key of self._subscribers
unsubscribe(b, event_type, handler) ==
  IF event_type \notin DOMAIN b.subscribers THEN b
  ELSE LET handlers == b.subscribers[event_type]
           found == {i \in 1..Len(handlers) : handlers[i] = handler}
           first == CHOOSE i \in found : \A j \in found : i <= j
       IN IF found = {} THEN [b EXCEPT !.raised = TRUE]
          ELSE [b EXCEPT !.subscribers[event_type] =
                  SubSeq(handlers, 1, first - 1) \o
                  SubSeq(handlers, first + 1, Len(handlers)),
                         !.removed = @ + 1]

\* EventBus.publish_async of a new Event object of type event_type; by names
\* the publisher ("caller", "system" or "handler")
publish_async(b, at, event_type, by) ==
  LET event == Len(b.events) + 1
  IN [b EXCEPT
        !.events = Append(b.events,
                      [type |-> event_type, by |-> by, drain |-> at.drain,
                       tick |-> at.tick, seen |-> <<>>, calls |-> <<>>]),
        !.next_async_queue = Append(b.next_async_queue, event)]

\* handler(event), for the handlers of the model: "rec" only takes the
\* event, "pub" publishes an event of type F asynchronously, "boom" raises,
\* "once" unsubscribes itself from the type of the event, "more" subscribes
\* "rec" to the type of the event, "again" subscribes itself once more
handler_call(b, at, handler, event) ==
  LET b1 == [b EXCEPT !.events[event].calls =
                         Append(@, [handler |-> handler, drain |-> at.drain,
                                    tick |-> at.tick]),
                      !.log = Append(@, [event |-> event, handler |-> handler,
                                         system |-> 0])]
  IN IF handler = "pub" THEN publish_async(b1, at, "F", "handler")
     ELSE IF handler = "boom" THEN [b1 EXCEPT !.raised = TRUE]
     ELSE IF handler = "once" THEN unsubscribe(b1, b.events[event].type, "once")
     ELSE IF handler = "more" THEN subscribe(b1, b.events[event].type, "rec")
     ELSE IF handler = "again" THEN subscribe(b1, b.events[event].type, "again")
     ELSE b1

\* a dispatch that calls a handler subscribed several times only once
RECURSIVE dispatch_skip_repeats(_, _, _, _)
dispatch_skip_repeats(b, at, event, i) ==
  LET handlers == subscribers_get(b, b.events[event].type)
  IN IF b.raised \/ i > Len(handlers) THEN b
     ELSE IF \E j \in 1..(i - 1) : handlers[j] = handlers[i]
       THEN dispatch_skip_repeats(b, at, event, i + 1)
     ELSE dispatch_skip_repeats(handler_call(b, at, handlers[i], event), at, event,
                                i + 1)
\* a dispatch that goes on with the next handler when a handler has raised
RECURSIVE dispatch_past_error(_, _, _, _)
dispatch_past_error(b, at, event, i) ==
  LET handlers == subscribers_get(b, b.events[event].type)
  IN IF i > Len(handlers) THEN b
     ELSE dispatch_past_error(handler_call(b, at, handlers[i], event), at, event,
                              i + 1)
\* for handler in self._subscribers.get(event_type, []): handler(event)
\* the loop walks the live list by position, from position i on
RECURSIVE dispatch(_, _, _, _)
dispatch(b, at, event, i) ==
  LET handlers == subscribers_get(b, b.events[event].type)
  IN IF b.raised \/ i > Len(handlers) THEN b
     ELSE dispatch(handler_call(b, at, handlers[i], event), at, event, i + 1)

\* EventBus.publish_sync of a new Event object of type event_type
publish_sync(b, at, event_type, by) ==
  LET event == Len(b.events) + 1
      b1 == [b EXCEPT !.events =
               Append(b.events,
                      [type |-> event_type, by |-> by, drain |-> at.drain,
                       tick |-> at.tick, seen |-> <<>>, calls |-> <<>>])]
  IN dispatch(b1, at, event, 1)

\* the loop of process_async walking the queue from its end
RECURSIVE drain_from_lifo(_, _, _)
drain_from_lifo(b, at, i) ==
  IF b.raised \/ i > Len(b.current_async_queue) THEN b
  ELSE LET event == b.current_async_queue[Len(b.current_async_queue) + 1 - i]
           b1 == [b EXCEPT !.events[event].seen = Append(@, at)]
       IN drain_from_lifo(dispatch(b1, at, event, 1), at, i + 1)
\* for event in self._current_async_queue: ..., from position i on
RECURSIVE drain_from(_, _, _)
drain_from(b, at, i) ==
  IF b.raised \/ i > Len(b.current_async_queue) THEN b
  ELSE LET event == b.current_async_queue[i]
           b1 == [b EXCEPT !.events[event].seen = Append(@, at)]
       IN drain_from(dispatch(b1, at, event, 1), at, i + 1)

\* EventBus.process_async (and EventBus.update, which only calls it)
process_async(b, at) ==
  LET b1 == [b EXCEPT !.current_async_queue = b.next_async_queue,
                      !.next_async_queue = <<>>]
      b2 == drain_from(b1, at, 1)
  IN IF b2.raised THEN b2 ELSE [b2 EXCEPT !.current_async_queue = <<>>]

(***************************************************************************)
(* Systems and the update loop of the World                                *)
(*   a system is [name, kind, priority, enabled, group]; kind tells what   *)
(*   its update does: "noop" nothing, "pub" publishes an event of type E   *)
(*   asynchronously on world.event_bus, "spawn" calls                      *)
(*   world.create_entity([A]), "boom" raises.  The base class System sets  *)
(*   no group attribute: group is NoGroup then.                            *)
(*   The loop works on u = [w, b]: the World record and its event bus.     *)
(***************************************************************************)
NoGroup == "<no attribute>"
System_init(name, kind, priority, group) ==
  [name |-> name, kind |-> kind, priority |-> priority, enabled |-> TRUE,
   group |-> group]

\* an insertion that puts a system before the systems of equal priority
InsertSorted_before_equal(sorted, system) ==
  LET k == Cardinality({i \in 1..Len(sorted) : sorted[i].priority < system.priority})
  IN SubSeq(sorted, 1, k) \o <<system>> \o SubSeq(sorted, k + 1, Len(sorted))
\* list.sort(key=lambda s: s.priority) is stable
InsertSorted(sorted, system) ==
  LET k == Cardinality({i \in 1..Len(sorted) : sorted[i].priority <= system.priority})
  IN SubSeq(sorted, 1, k) \o <<system>> \o SubSeq(sorted, k + 1, Len(sorted))
RECURSIVE sort_by_priority(_)
sort_by_priority(list) ==
  IF list = <<>> THEN <<>>
  ELSE InsertSorted(sort_by_priority(Front(list)), Last(list))

\* World.register_system
register_system(list, system) == sort_by_priority(Append(list, system))

\* system.update(world, dt)
system_update(u, at, system) ==
  LET b1 == [u.b EXCEPT !.log = Append(@, [event |-> 0, handler |-> "",
                                           system |-> system.name])]
  IN IF system.kind = "pub"
       THEN [u EXCEPT !.b = publish_async(b1, at, "E", "system")]
     ELSE IF system.kind = "spawn"
       THEN LET created(r) == [w |-> r.w, b |-> [b1 EXCEPT !.raised = r.raised]]
            IN created(create_entity(u.w, <<"A">>, EmptyDict))
     ELSE IF system.kind = "boom" THEN [u EXCEPT !.b = [b1 EXCEPT !.raised = TRUE]]
     ELSE [u EXCEPT !.b = b1]

\* a loop that catches the exception of an update and goes on
RECURSIVE update_systems_keep_going(_, _, _, _, _)
update_systems_keep_going(u, at, list, group, i) ==
  IF i > Len(list) THEN u
  ELSE LET system == list[i]
       IN IF ~system.enabled
            THEN update_systems_keep_going(u, at, list, group, i + 1)
          ELSE IF group # NoGroup /\ system.group = NoGroup
            THEN [u EXCEPT !.b.raised = TRUE]
          ELSE IF group = NoGroup \/ system.group = group
            THEN update_systems_keep_going(system_update(u, at, system), at, list,
                                           group, i + 1)
          ELSE update_systems_keep_going(u, at, list, group, i + 1)
\* World.update_systems, from position i of self.systems on; group is NoGroup
\* for None.  system.group of a system without the attribute raises.
RECURSIVE update_systems(_, _, _, _, _)
update_systems(u, at, list, group, i) ==
  IF u.b.raised \/ i > Len(list) THEN u
  ELSE LET system == list[i]
       IN IF ~system.enabled THEN update_systems(u, at, list, group, i + 1)
          ELSE IF group # NoGroup /\ system.group = NoGroup
            THEN [u EXCEPT !.b.raised = TRUE]
          ELSE IF group = NoGroup \/ system.group = group
            THEN update_systems(system_update(u, at, system), at, list, group, i + 1)
          ELSE update_systems(u, at, list, group, i + 1)

\* a faulty update: the event bus is drained although an update has raised
World_update_drains_anyway(u, tick, drain, list, group) ==
  LET event_bus_update(u1) ==
        [u |-> [u1 EXCEPT !.b = [process_async([u1.b EXCEPT !.raised = FALSE],
                                               [drain |-> drain, tick |-> tick])
                                   EXCEPT !.raised = u1.b.raised]],
         drained |-> ~u1.b.raised]
  IN event_bus_update(update_systems(u, [drain |-> 0, tick |-> tick], list, group, 1))
\* World.update, the tick-th call of it: [u, drained]; drained tells whether
\* event_bus.update() ran, as the drain numbered drain
World_update(u, tick, drain, list, group) ==
  LET event_bus_update(u1) ==
        IF u1.b.raised THEN [u |-> u1, drained |-> FALSE]
        ELSE [u |-> [u1 EXCEPT !.b = process_async(u1.b, [drain |-> drain,
                                                          tick |-> tick])],
              drained |-> TRUE]
  IN event_bus_update(update_systems(u, [drain |-> 0, tick |-> tick], list, group, 1))

(***************************************************************************)
(* The state: the fields of one World                                      *)
(***************************************************************************)
VARIABLES
  archetypes, entity_to_archetype, entity_components, free_ids,
  next_entity_id, num_entities, query_cache, world_version,
  registry, columns,
  \* the number of World calls that have raised
  failures,
  \* one Component used on its own, and the value last written for each entity
  component, last_written,
  \* the World's event bus and systems; the numbers of process_async and
  \* World.update calls made so far
  event_bus, systems, drains, ticks,
  \* a second World, and the component types whose Component instance is one
  \* object registered with both Worlds
  other, shared,
  \* the process_async call in progress, when its loops are followed step by
  \* step: the position of the event of the outer loop in
  \* _current_async_queue and the position of the next handler of the inner
  \* loop in the list of subscribers, both counted from 1
  frame

world_vars == <<archetypes, entity_to_archetype, entity_components, free_ids,
                next_entity_id, num_entities, query_cache, world_version,
                registry, columns, failures>>
column_vars == <<component, last_written>>
bus_vars == <<event_bus, systems, drains, ticks>>
other_vars == <<other, shared>>
frame_vars == <<frame>>
vars == <<world_vars, column_vars, bus_vars, other_vars, frame_vars>>

\* the World as a record of its fields
World ==
  [archetypes |-> archetypes,
   entity_to_archetype |-> entity_to_archetype,
   entity_components |-> entity_components,
   free_ids |-> free_ids,
   next_entity_id |-> next_entity_id,
   num_entities |-> num_entities,
   query_cache |-> query_cache,
   world_version |-> world_version,
   registry |-> registry,
   columns |-> columns]

\* the fields of the World after a call that left it as w
SetWorld(w, raised) ==
  /\ archetypes' = w.archetypes
  /\ entity_to_archetype' = w.entity_to_archetype
  /\ entity_components' = w.entity_components
  /\ free_ids' = w.free_ids
  /\ next_entity_id' = w.next_entity_id
  /\ num_entities' = w.num_entities
  /\ query_cache' = w.query_cache
  /\ world_version' = w.world_version
  /\ registry' = w.registry
  /\ columns' = w.columns
  /\ failures' = IF raised THEN failures + 1 ELSE failures

\* the World after a call that produced r = [w, raised, ret]
Becomes(r) ==
  /\ SetWorld(r.w, r.raised)
  /\ UNCHANGED <<other_vars, frame_vars, column_vars, bus_vars>>

WorldInit ==
  /\ archetypes = World_init.archetypes
  /\ entity_to_archetype = World_init.entity_to_archetype
  /\ entity_components = World_init.entity_components
  /\ free_ids = World_init.free_ids
  /\ next_entity_id = World_init.next_entity_id
  /\ num_entities = World_init.num_entities
  /\ query_cache = World_init.query_cache
  /\ world_version = World_init.world_version
  /\ registry = World_init.registry
  /\ columns = World_init.columns
  /\ failures = 0

\* the column of a one-dimensional component type
ColumnDims == dimensions("B")
ColumnInit ==
  /\ component = Component_init(ColumnDims)
  /\ last_written = EmptyDict

BusInit ==
  /\ event_bus = EventBus_init
  /\ systems = <<>>
  /\ drains = 0
  /\ ticks = 0

(***************************************************************************)
(* The inputs of the calls                                                 *)
(***************************************************************************)
\* the ids given to calls: every id allocated so far, and one never allocated
EntityIds == 0..next_entity_id
\* lists of component types
CreateLists == {<<"A">>, <<"A", "B">>}
QueryLists == {<<"B">>}
\* a value of the right width, and one of the wrong width, for each type
GoodVal(t) == IF t = "A" THEN TupVal(<<1, 2>>) ELSE NumVal(3)
BadVal(t) == IF t = "A" THEN NumVal(5) ELSE TupVal(<<1, 2>>)
ValInputs(t) == IF t = "B" THEN {NoneVal, GoodVal(t), BadVal(t)}
               ELSE {NoneVal, GoodVal(t)}
\* component_initial_data: None, and data of a wrong width for B
DataInputs ==
  {EmptyDict,
   [t \in {"B"} |-> BadVal("B")]}

\* a call that would take world_version plus the number of raised calls past
\* the cap is not made
Bounded(r) ==
  r.w.world_version + failures + (IF r.raised THEN 1 ELSE 0) <= MaxCalls

(***************************************************************************)
(* The calls                                                               *)
(***************************************************************************)
RegisterComponent(t, with_instance) ==
  LET r == register_component(World, t, with_instance)
  IN /\ Bounded(r)
     /\ Becomes(r)

CreateEntity(components, data) ==
  LET r == create_entity(World, components, data)
  IN /\ Bounded(r)
     /\ Becomes(r)

RemoveEntity(entity_id) ==
  LET r == remove_entity(World, entity_id)
  IN /\ Bounded(r)
     /\ Becomes(r)

AddComponent(entity_id, t, val) ==
  LET r == add_component(World, entity_id, t, val)
  IN /\ Bounded(r)
     /\ Becomes(r)

RemoveComponent(entity_id, t) ==
  LET r == remove_component(World, entity_id, t)
  IN /\ Bounded(r)
     /\ Becomes(r)

Query(required) ==
  LET r == query(World, required)
  IN /\ Bounded(r)
     /\ Becomes(r)

OtherInit ==
  /\ other = World_init
  /\ shared = {}

\* no process_async call is running
NoFrame == [running |-> FALSE, event |-> 0, handler |-> 0]
FrameInit == frame = NoFrame

Init == WorldInit /\ ColumnInit /\ BusInit /\ OtherInit /\ FrameInit

Next ==
  \/ \E t \in CompTypes, i \in BOOLEAN : RegisterComponent(t, i)
  \/ \E c \in CreateLists, d \in DataInputs : CreateEntity(c, d)
  \/ \E e \in EntityIds : RemoveEntity(e)
  \/ \E e \in EntityIds, t \in CompTypes : \E v \in ValInputs(t) : AddComponent(e, t, v)
  \/ \E e \in EntityIds, t \in CompTypes : RemoveComponent(e, t)
  \/ \E r \in QueryLists : Query(r)

Spec == Init /\ [][Next]_vars

(***************************************************************************)
(* A Component used on its own: add, remove and update_value calls         *)
(***************************************************************************)
ColumnEntities == 0..MaxEntity
ColumnVals == {NoneVal, NumVal(1), NumVal(2), TupVal(<<1, 2>>)}

ColumnAdd(entity_id, val) ==
  LET r == Component_add(component, ColumnDims, entity_id, val)
  IN /\ component' = r.col
     /\ last_written' = IF r.raised THEN last_written
                        ELSE Put(last_written, entity_id, Widen(val, ColumnDims))
     /\ UNCHANGED <<world_vars, other_vars, frame_vars, bus_vars>>

ColumnRemove(entity_id) ==
  /\ component' = Component_remove(component, entity_id)
  /\ last_written' = Del(last_written, entity_id)
  /\ UNCHANGED <<world_vars, other_vars, frame_vars, bus_vars>>

ColumnUpdate(entity_id, val) ==
  LET r == Component_update_value(component, ColumnDims, entity_id, val)
  IN /\ component' = r.col
     /\ last_written' = IF r.raised THEN last_written
                        ELSE Put(last_written, entity_id, val.v)
     /\ UNCHANGED <<world_vars, other_vars, frame_vars, bus_vars>>

ColumnNext ==
  \/ \E e \in ColumnEntities, v \in ColumnVals : ColumnAdd(e, v)
  \/ \E e \in ColumnEntities : ColumnRemove(e)
  \/ \E e \in ColumnEntities, v \in ColumnVals : ColumnUpdate(e, v)

ColumnSpec == Init /\ [][ColumnNext]_vars

(***************************************************************************)
(* The event bus and the update loop: calls made from outside              *)
(***************************************************************************)
\* the subscriptions made: (event type, handler)
SubscribeInputs == {<<"E", "rec">>, <<"E", "pub">>, <<"F", "rec">>, <<"F", "boom">>}
\* the systems registered: (kind, priority, group); the last one is a System
\* whose class defines no group
SystemInputs ==
  {<<"spawn", 1, "a">>, <<"boom", 1, "a">>, <<"pub", 2, "b">>, <<"noop", 2, NoGroup>>}
\* the group given to World.update: None (written NoGroup) or a name
Groups == {NoGroup, "a", "b"}
\* not an instance of Event
NotAnEvent == "<not an Event>"
Outside == [drain |-> 0, tick |-> 0]
Subscriptions(b) ==
  LET count[ts \in SUBSET DOMAIN b.subscribers] ==
        IF ts = {} THEN 0
        ELSE LET t == CHOOSE x \in ts : TRUE
             IN Len(b.subscribers[t]) + count[ts \ {t}]
  IN count[DOMAIN b.subscribers]
\* a call that would take the bus past one of the caps is not made
BusBounded(b, list, d, t) ==
  /\ Subscriptions(b) <= MaxSubscriptions
  /\ b.removed <= MaxRemoved
  /\ Len(b.events) <= MaxEvents
  /\ d <= MaxDrains
  /\ t <= MaxDrains
  /\ Len(list) <= MaxSystems
  /\ Subscriptions(b) + b.removed + Len(b.events) + d + t + Len(list) <= MaxBusSize
\* the bus once the exception of a call, if any, has reached the caller
Settled(b) == [b EXCEPT !.raised = FALSE]
\* the bus when a call from outside begins: no call made yet
Fresh(b) == [b EXCEPT !.log = <<>>]

Subscribe(event_type, handler) ==
  LET b == subscribe(Fresh(event_bus), event_type, handler)
  IN /\ BusBounded(b, systems, drains, ticks)
     /\ event_bus' = Settled(b)
     /\ UNCHANGED <<world_vars, other_vars, frame_vars, column_vars, systems, drains, ticks>>

Unsubscribe(event_type, handler) ==
  LET b == unsubscribe(Fresh(event_bus), event_type, handler)
  IN /\ BusBounded(b, systems, drains, ticks)
     /\ event_bus' = Settled(b)
     /\ UNCHANGED <<world_vars, other_vars, frame_vars, column_vars, systems, drains, ticks>>

PublishAsync(event_type) ==
  LET b == IF event_type = NotAnEvent THEN [Fresh(event_bus) EXCEPT !.raised = TRUE]
           ELSE publish_async(Fresh(event_bus), Outside, event_type, "caller")
  IN /\ BusBounded(b, systems, drains, ticks)
     /\ event_bus' = Settled(b)
     /\ UNCHANGED <<world_vars, other_vars, frame_vars, column_vars, systems, drains, ticks>>

PublishSync(event_type) ==
  LET b == IF event_type = NotAnEvent THEN [Fresh(event_bus) EXCEPT !.raised = TRUE]
           ELSE publish_sync(Fresh(event_bus), Outside, event_type, "caller")
  IN /\ BusBounded(b, systems, drains, ticks)
     /\ event_bus' = Settled(b)
     /\ UNCHANGED <<world_vars, other_vars, frame_vars, column_vars, systems, drains, ticks>>

\* event_bus.update() called directly
BusUpdate ==
  LET b == process_async(Fresh(event_bus), [drain |-> drains + 1, tick |-> 0])
  IN /\ BusBounded(b, systems, drains + 1, ticks)
     /\ event_bus' = Settled(b)
     /\ drains' = drains + 1
     /\ UNCHANGED <<world_vars, other_vars, frame_vars, column_vars, systems, ticks>>

RegisterSystem(kind, priority, group) ==
  LET list == register_system(systems,
                 System_init(Len(systems) + 1, kind, priority, group))
  IN /\ BusBounded(event_bus, list, drains, ticks)
     /\ systems' = list
     /\ UNCHANGED <<world_vars, other_vars, frame_vars, column_vars, event_bus, drains, ticks>>

WorldUpdate(group) ==
  \E r \in {World_update([w |-> World, b |-> Fresh(event_bus)], ticks + 1,
                          drains + 1, systems, group)} :
     LET d == IF r.drained THEN drains + 1 ELSE drains
     IN /\ BusBounded(r.u.b, systems, d, ticks + 1)
        /\ SetWorld(r.u.w, r.u.b.raised)
        /\ event_bus' = Settled(r.u.b)
        /\ ticks' = ticks + 1
        /\ drains' = d
        /\ UNCHANGED <<other_vars, frame_vars, column_vars, systems>>

\* system.enable() and system.disable() of the system at position i
SetEnabled(i, flag) ==
  /\ systems[i].enabled # flag
  /\ systems' = [systems EXCEPT ![i].enabled = flag]
  /\ UNCHANGED <<world_vars, other_vars, frame_vars, column_vars, event_bus, drains, ticks>>

\* the event bus used on its own
BusNext ==
  \/ \E i \in SubscribeInputs : Subscribe(i[1], i[2])
  \/ \E i \in SubscribeInputs : Unsubscribe(i[1], i[2])
  \/ \E t \in {"E", NotAnEvent} : PublishAsync(t)
  \/ \E t \in {"E", NotAnEvent} : PublishSync(t)
  \/ BusUpdate

BusSpec == Init /\ [][BusNext]_vars

\* the update loop of a World whose systems publish, create entities or raise
LoopNext ==
  \/ Subscribe("E", "rec")
  \/ \E i \in SystemInputs : RegisterSystem(i[1], i[2], i[3])
  \/ \E i \in 1..Len(systems), flag \in BOOLEAN : SetEnabled(i, flag)
  \/ \E g \in Groups : WorldUpdate(g)

LoopSpec == Init /\ [][LoopNext]_vars

\* the event bus with handlers of one event type that raise, unsubscribe
\* themselves or subscribe a handler while an event is dispatched
DispatchHandlers == {"rec", "boom", "once", "more"}
DispatchNext ==
  \/ \E handler \in DispatchHandlers : Subscribe("F", handler)
  \/ PublishAsync("F")
  \/ PublishSync("F")
  \/ BusUpdate

DispatchSpec == Init /\ [][DispatchNext]_vars

(***************************************************************************)
(* process_async followed step by step: one step for each turn of its two  *)
(* loops.  The handlers publish an event of the type they are subscribed   *)
(* to, or subscribe themselves once more; all of them return.  No other    *)
(* call is made while the drain runs (one thread).                         *)
(***************************************************************************)
DrainHandlers == {"pub", "again"}
\* the subscribers of the event the outer loop is at
FrameHandlers ==
  IF frame.event = 0 THEN <<>>
  ELSE subscribers_get(event_bus,
         event_bus.events[event_bus.current_async_queue[frame.event]].type)
\* the inner loop has nothing left to call
InnerLoopOver == frame.event = 0 \/ frame.handler > Len(FrameHandlers)

DrainSubscribe(handler) == ~frame.running /\ Subscribe("F", handler)
DrainPublish == ~frame.running /\ PublishAsync("F")

\* the swap of the two queues; the drain is begun only when the events its
\* publishing handlers will add are within MaxEvents
DrainBegin ==
  LET publishers == Cardinality({i \in 1..Len(subscribers_get(event_bus, "F")) :
                                   subscribers_get(event_bus, "F")[i] = "pub"})
  IN /\ ~frame.running
     /\ drains < MaxDrains
     /\ Len(event_bus.events) + Len(event_bus.next_async_queue) * publishers
           <= MaxEvents
     /\ event_bus' = [Fresh(event_bus) EXCEPT
                        !.current_async_queue = event_bus.next_async_queue,
                        !.next_async_queue = <<>>]
     /\ drains' = drains + 1
     /\ frame' = [running |-> TRUE, event |-> 0, handler |-> 0]
     /\ UNCHANGED <<world_vars, other_vars, column_vars, systems, ticks>>

\* for event in self._current_async_queue: the next event is taken
DrainNextEvent ==
  /\ frame.running
  /\ InnerLoopOver
  /\ frame.event < Len(event_bus.current_async_queue)
  /\ event_bus' = [event_bus EXCEPT
                     !.events[event_bus.current_async_queue[frame.event + 1]].seen =
                        Append(@, [drain |-> drains, tick |-> 0])]
  /\ frame' = [running |-> TRUE, event |-> frame.event + 1, handler |-> 1]
  /\ UNCHANGED <<world_vars, other_vars, column_vars, systems, drains, ticks>>

\* for handler in self._subscribers.get(event_type, []): handler(event); the
\* call is not made when it would take the subscriptions past
\* MaxSubscriptions
DrainCall ==
  /\ frame.running
  /\ ~InnerLoopOver
  /\ LET b == handler_call(event_bus, [drain |-> drains, tick |-> 0],
                           FrameHandlers[frame.handler],
                           event_bus.current_async_queue[frame.event])
     IN /\ Subscriptions(b) <= MaxSubscriptions
        /\ event_bus' = Settled(b)
        /\ frame' = IF b.raised THEN NoFrame
                    ELSE [frame EXCEPT !.handler = @ + 1]
  /\ UNCHANGED <<world_vars, other_vars, column_vars, systems, drains, ticks>>

\* both loops are over: self._current_async_queue.clear(), and the call returns
DrainEnd ==
  /\ frame.running
  /\ InnerLoopOver
  /\ frame.event = Len(event_bus.current_async_queue)
  /\ event_bus' = [event_bus EXCEPT !.current_async_queue = <<>>]
  /\ frame' = NoFrame
  /\ UNCHANGED <<world_vars, other_vars, column_vars, systems, drains, ticks>>

DrainStep == DrainNextEvent \/ DrainCall \/ DrainEnd

DrainNext ==
  \/ \E handler \in DrainHandlers : DrainSubscribe(handler)
  \/ DrainPublish
  \/ DrainBegin
  \/ DrainStep

\* a call that has begun goes on: the interpreter takes the next step of the
\* running loop
DrainSpec == Init /\ [][DrainNext]_vars /\ WF_vars(DrainStep)

(***************************************************************************)
(* Two Worlds of one process.  A call is made on World i (1: the World of  *)
(* the state, 2: other).  A Component instance the caller registered with  *)
(* both Worlds is one object: what a call on one World writes to it is     *)
(* what the other World reads.                                             *)
(***************************************************************************)
WorldOf(i) == IF i = 1 THEN World ELSE other
\* World w once a call has left World acted as it is: the instances of the
\* types in sh are those of acted
Aliased_all(w, acted, sh) ==
  [w EXCEPT !.columns = [t \in DOMAIN w.columns |->
                           IF t \in DOMAIN acted.columns
                             THEN acted.columns[t] ELSE w.columns[t]]]
Aliased(w, acted, sh) ==
  [w EXCEPT !.columns = [t \in DOMAIN w.columns |->
                           IF t \in sh /\ t \in DOMAIN acted.columns
                             THEN acted.columns[t] ELSE w.columns[t]]]

\* a call on World i that produced r = [w, raised, ret] and left sh shared
Acts(i, r, sh) ==
  /\ r.w.world_version + WorldOf(3 - i).world_version + failures
        + (IF r.raised THEN 1 ELSE 0) <= MaxTwoCalls
  /\ IF i = 1
       THEN SetWorld(r.w, r.raised) /\ other' = Aliased(other, r.w, sh)
       ELSE SetWorld(Aliased(World, r.w, sh), r.raised) /\ other' = r.w
  /\ shared' = sh
  /\ UNCHANGED <<column_vars, bus_vars, frame_vars>>

RegisterIn(i, t) ==
  \E r \in {register_component(WorldOf(i), t, FALSE)} : Acts(i, r, shared)

\* register_component(t, instance) with the instance World 3 - i holds for t
ShareIn(i, t) ==
  /\ t \in DOMAIN WorldOf(3 - i).columns
  /\ \E r \in {register_instance(WorldOf(i), t, WorldOf(3 - i).columns[t])} :
        Acts(i, r, IF r.raised THEN shared ELSE shared \cup {t})

CreateIn(i, components) ==
  \E r \in {create_entity(WorldOf(i), components, EmptyDict)} : Acts(i, r, shared)

RemoveIn(i, entity_id) ==
  \E r \in {remove_entity(WorldOf(i), entity_id)} : Acts(i, r, shared)

AddIn(i, entity_id, t) ==
  \E r \in {add_component(WorldOf(i), entity_id, t, NoneVal)} : Acts(i, r, shared)

RemoveComponentIn(i, entity_id, t) ==
  \E r \in {remove_component(WorldOf(i), entity_id, t)} : Acts(i, r, shared)

QueryIn(i, required) ==
  \E r \in {query(WorldOf(i), required)} : Acts(i, r, shared)

TwoWorldsNext ==
  \E i \in {1, 2} :
     \/ \E t \in CompTypes : RegisterIn(i, t)
     \/ \E t \in CompTypes : ShareIn(i, t)
     \/ \E c \in CreateLists : CreateIn(i, c)
     \/ \E e \in 0..WorldOf(i).next_entity_id : RemoveIn(i, e)
     \/ \E e \in 0..WorldOf(i).next_entity_id, t \in CompTypes : AddIn(i, e, t)
     \/ \E e \in 0..WorldOf(i).next_entity_id, t \in CompTypes :
           RemoveComponentIn(i, e, t)
     \/ \E r \in QueryLists : QueryIn(i, r)

TwoWorldsSpec == Init /\ [][TwoWorldsNext]_vars

(***************************************************************************)
(* The component registry of a World used directly, next to create_entity  *)
(* and query calls                                                         *)
(***************************************************************************)
\* the component types given to the registry: those of the World calls and
\* two more
RegistryTypes == CompTypes \cup {"C", "D"}
RegistryLists == {<<"A", "B">>, <<"B", "A">>, <<"C", "D">>, <<"D", "C">>}

\* world.component_registry.get_bit(comp_type)
GetBit(comp_type) ==
  Becomes(Returns([World EXCEPT !.registry = get_bit(registry, comp_type)], <<>>))

\* world.component_registry.compute_signature(components)
ComputeSignature(components) ==
  Becomes(Returns([World EXCEPT
                     !.registry = compute_signature(registry, components).reg],
                  <<>>))

RegistryNext ==
  \/ \E t \in RegistryTypes : GetBit(t)
  \/ \E l \in RegistryLists : ComputeSignature(l)
  \/ \E c \in CreateLists : CreateEntity(c, EmptyDict)
  \/ \E r \in QueryLists : Query(r)

RegistrySpec == Init /\ [][RegistryNext]_vars

(***************************************************************************)
(* Notions used by the properties                                          *)
(***************************************************************************)
\* no World call has raised so far
clean == failures = 0
\* lists of component types given to query and create_entity in the properties
TypeLists == {<<>>, <<"A">>, <<"B">>, <<"A", "B">>, <<"B", "A">>, <<"A", "A">>}
LiveIds(w) == DOMAIN w.entity_components
HasAll(w, e, types) == ToSet(types) \subseteq ToSet(w.entity_components[e])
\* the entity ids of a query result, in order
ResultIds(res) == [i \in 1..Len(res) |-> res[i][1]]
\* how often entity e is in a query result
Occurrences(res, e) == Cardinality({i \in 1..Len(res) : res[i][1] = e})
\* the archetypes that list entity e
ArchetypesOf(w, e) ==
  {w.archetypes[i].signature : i \in {j \in 1..Len(w.archetypes) :
                                        e \in ToSet(w.archetypes[j].entities)}}
HasRow(w, t, e) == t \in DOMAIN w.columns /\ e \in DOMAIN w.columns[t].entity_to_index

(***************************************************************************)
(* C1: after any sequence of successful calls, query(T1..Tk) returns every *)
(* live entity whose component set contains all of T1..Tk exactly once,    *)
(* and no entity that is removed (or never created) or lacks one of the Ti.*)
(***************************************************************************)
C1_QueryExact ==
  clean =>
    \A r \in TypeLists :
       LET q == query(World, r)
       IN /\ ~q.raised
          /\ \A e \in 0..next_entity_id :
                Occurrences(q.ret, e) =
                  IF e \in LiveIds(World) /\ HasAll(World, e, r) THEN 1 ELSE 0

\* a cached, non-empty answer exists while an entity lacking a queried type is
\* live and another entity has been removed
C1_Witness ==
  /\ clean
  /\ free_ids # <<>>
  /\ \E m \in DOMAIN query_cache :
        /\ query_cache[m].version = world_version
        /\ query_cache[m].result # <<>>
        /\ \E e \in LiveIds(World) : Occurrences(query_cache[m].result, e) = 0

(***************************************************************************)
(* C2: after any create_entity, remove_entity, add_component or            *)
(* remove_component call that mutates the world, world_version is strictly *)
(* greater than before the call and query_cache is empty.                  *)
(***************************************************************************)
\* the step is one of the four calls
MutationCall ==
  \/ \E c \in CreateLists, d \in DataInputs : CreateEntity(c, d)
  \/ \E e \in EntityIds : RemoveEntity(e)
  \/ \E e \in EntityIds, t \in CompTypes : \E v \in ValInputs(t) : AddComponent(e, t, v)
  \/ \E e \in EntityIds, t \in CompTypes : RemoveComponent(e, t)
\* the step changes entities, their composition, the archetypes or the columns
Mutated ==
  \/ archetypes' # archetypes
  \/ entity_to_archetype' # entity_to_archetype
  \/ entity_components' # entity_components
  \/ free_ids' # free_ids
  \/ next_entity_id' # next_entity_id
  \/ \E t \in DOMAIN columns : columns'[t] # columns[t]
C2_MutationInvalidates ==
  [][(MutationCall /\ Mutated) =>
        (world_version' > world_version /\ query_cache' = EmptyDict)]_vars

(***************************************************************************)
(* C3: for any sequence of successful operations interleaved with queries, *)
(* the list query returns equals a fresh scan of the archetypes, and two   *)
(* consecutive identical queries return equal lists.                       *)
(***************************************************************************)
FreshScan(w, r) ==
  Scan(w.archetypes, compute_signature(w.registry, r).sig, r)
C3_CachedEqualsFresh ==
  clean =>
    \A r \in TypeLists :
       LET q1 == query(World, r)
           q2 == query(q1.w, r)
       IN /\ q1.ret = FreshScan(World, r)
          /\ q2.ret = q1.ret
          /\ q2.w = q1.w

\* a query is answered from the cache, with a non-empty list
C3_Witness ==
  /\ clean
  /\ \E r \in QueryLists :
        LET m == compute_signature(registry, r).sig
        IN /\ m \in DOMAIN query_cache
           /\ query_cache[m].version = world_version
           /\ query_cache[m].result # <<>>
           /\ query(World, r).ret = query_cache[m].result

(***************************************************************************)
(* C4: create_entity returns the most recently freed id and leaves         *)
(* next_entity_id unchanged whenever free_ids is non-empty; only when      *)
(* free_ids is empty does it return next_entity_id and advance the counter *)
(* by one.  Checked for a create_entity call made in any reachable state,  *)
(* and for one made right after remove_entity freed an id.                 *)
(***************************************************************************)
C4_LifoReuseFirst ==
  \A c \in CreateLists :
     /\ LET r == create_entity(World, c, EmptyDict)
        IN ~r.raised =>
             IF free_ids # <<>>
               THEN /\ r.ret = <<Last(free_ids)>>
                    /\ r.w.free_ids = Front(free_ids)
                    /\ r.w.next_entity_id = next_entity_id
               ELSE /\ r.ret = <<next_entity_id>>
                    /\ r.w.free_ids = <<>>
                    /\ r.w.next_entity_id = next_entity_id + 1
     /\ \A e \in LiveIds(World) :
           LET freed == remove_entity(World, e).w
               r == create_entity(freed, c, EmptyDict)
           IN ~r.raised =>
                /\ r.ret = <<e>>
                /\ r.w.next_entity_id = next_entity_id
                /\ r.w.free_ids = free_ids

\* two ids are free, so that the most recently freed one is not the only choice,
\* and a create_entity call made here returns it
C4_Witness ==
  /\ Len(free_ids) >= 2
  /\ create_entity(World, <<"A">>, EmptyDict).ret = <<Last(free_ids)>>
  /\ Last(free_ids) # Head(free_ids)

(***************************************************************************)
(* C5: after add_component(id, T, v) succeeds the entity is in the         *)
(* archetype whose signature is its old signature OR bit(T) and column T   *)
(* holds v (T's default when v is omitted) for id; after                   *)
(* remove_component(id, T) succeeds for a present T the entity is in the   *)
(* archetype whose signature is its old signature with bit(T) cleared and  *)
(* column T has no row for id.  The stored values of the entity's other    *)
(* components are unchanged.                                               *)
(***************************************************************************)
OthersUnchanged(w, w2, e, t) ==
  \A u \in CompTypes \ {t} :
     HasRow(w, u, e) =>
        /\ HasRow(w2, u, e)
        /\ Component_get_value(w2.columns[u], e) = Component_get_value(w.columns[u], e)
C5_AddRemoveComponent ==
  \A e \in LiveIds(World), t \in CompTypes :
     /\ \A v \in {NoneVal, GoodVal(t)} :
           LET r == add_component(World, e, t, v)
               bit == r.w.registry.bits[t]
               new == BitOr(entity_to_archetype[e], bit)
           IN ~r.raised =>
                /\ BitAnd(entity_to_archetype[e], bit) = 0
                /\ r.w.entity_to_archetype[e] = new
                /\ ArchetypesOf(r.w, e) = {new}
                /\ t \in ToSet(r.w.entity_components[e])
                /\ HasRow(r.w, t, e)
                /\ Component_get_value(r.w.columns[t], e) =
                     (IF v = NoneVal THEN default(dimensions(t)) ELSE v.v)
                /\ OthersUnchanged(World, r.w, e, t)
     /\ t \in ToSet(entity_components[e]) =>
           LET r == remove_component(World, e, t)
               bit == registry.bits[t]
               new == entity_to_archetype[e] - bit
           IN /\ ~r.raised
              /\ BitAnd(entity_to_archetype[e], bit) = bit
              /\ r.w.entity_to_archetype[e] = new
              /\ ArchetypesOf(r.w, e) = {new}
              /\ t \notin ToSet(r.w.entity_components[e])
              /\ ~HasRow(r.w, t, e)
              /\ OthersUnchanged(World, r.w, e, t)

\* an entity that got B by add_component with a value and keeps its A row, next
\* to an entity from which B can be removed while it keeps another component
C5_Witness ==
  /\ clean
  /\ \E e \in LiveIds(World) :
        /\ entity_components[e] = <<"A", "B">>
        /\ HasRow(World, "A", e)
        /\ HasRow(World, "B", e)
        /\ Component_get_value(columns["B"], e) = GoodVal("B").v
        /\ ~remove_component(World, e, "B").raised
  /\ \E e \in LiveIds(World) : entity_components[e] = <<"A">>

(***************************************************************************)
(* C7: each tuple returned by query carries a map that contains every      *)
(* component type the entity has, not only the queried ones.               *)
(***************************************************************************)
C7_MapHasEveryComponent ==
  clean =>
    \A r \in TypeLists \ {<<>>} :
       LET res == query(World, r).ret
       IN \A i \in 1..Len(res) :
             DOMAIN res[i][2] = ToSet(entity_components[res[i][1]])

(***************************************************************************)
(* C8: within one archetype the query results are in the order in which    *)
(* the entities were inserted into that archetype, and archetypes are      *)
(* enumerated in the order in which they were created.                     *)
(***************************************************************************)
Pos(seq, x) == CHOOSE i \in 1..Len(seq) : seq[i] = x
EntitiesOf(w, sig) ==
  IF sig \in Signatures(w) THEN w.archetypes[ArchIdx(w, sig)].entities ELSE <<>>
SigSeq(w) == [i \in 1..Len(w.archetypes) |-> w.archetypes[i].signature]
IsPrefix(s, t) == Len(s) <= Len(t) /\ SubSeq(t, 1, Len(s)) = s

\* a list of entity ids goes archetype by archetype, the archetypes in the
\* order of the archetype table and the entities of one archetype in the order
\* of its entities list
FollowsLists(w, ids) ==
  \A i, j \in 1..Len(ids) :
     i < j =>
       LET ai == ArchIdx(w, w.entity_to_archetype[ids[i]])
           aj == ArchIdx(w, w.entity_to_archetype[ids[j]])
           ents == w.archetypes[ai].entities
       IN \/ ai < aj
          \/ ai = aj /\ Pos(ents, ids[i]) < Pos(ents, ids[j])
\* what query returns follows the lists: always when it scans the archetypes,
\* and also when it answers from the cache after successful calls only
QueryFollowsLists ==
  \A r \in TypeLists :
     /\ FollowsLists(World, ResultIds(FreshScan(World, r)))
     /\ clean => FollowsLists(World, ResultIds(query(World, r).ret))
\* the archetype table only grows at its end
CreationOrderKept(w, w2) == IsPrefix(SigSeq(w), SigSeq(w2))
\* an entity entering an archetype is listed after those already in it
EntersLast(old, new) ==
  \A x \in ToSet(old) \cap ToSet(new), y \in ToSet(new) \ ToSet(old) :
     Pos(new, x) < Pos(new, y)
\* the entities that stay in an archetype keep their relative order
KeepsInsertionOrder(old, new) ==
  \A x, y \in ToSet(old) \cap ToSet(new) :
     Pos(old, x) < Pos(old, y) => Pos(new, x) < Pos(new, y)
\* ... except that a removal moves the last entity to the removed one's position
SwapsLastIntoGap(old, new) ==
  LET gone == ToSet(old) \ ToSet(new)
  IN IF gone = {} THEN IsPrefix(old, new)
     ELSE \E x \in gone :
            LET p == Pos(old, x)
            IN new = Front(IF p = Len(old) THEN old
                           ELSE [old EXCEPT ![p] = Last(old)])

\* the claim as stated
C8_InsertionOrder ==
  /\ []QueryFollowsLists
  /\ [][/\ CreationOrderKept(World, World')
        /\ \A sig \in Signatures(World) :
              /\ EntersLast(EntitiesOf(World, sig), EntitiesOf(World', sig))
              /\ KeepsInsertionOrder(EntitiesOf(World, sig),
                                     EntitiesOf(World', sig))]_vars
\* the claim as amended: the order is that of the entities list, in which a
\* removal moves the last entity into the removed entity's position
C8_ListOrder ==
  /\ []QueryFollowsLists
  /\ [][/\ CreationOrderKept(World, World')
        /\ \A sig \in Signatures(World) :
              /\ EntersLast(EntitiesOf(World, sig), EntitiesOf(World', sig))
              /\ SwapsLastIntoGap(EntitiesOf(World, sig),
                                  EntitiesOf(World', sig))]_vars

\* a removal moved the last entity of an archetype forward and a cached answer
\* lists the archetype's entities in the resulting order
C8_Witness ==
  /\ clean
  /\ next_entity_id = 3
  /\ free_ids = <<0>>
  /\ \E i \in 1..Len(archetypes) : archetypes[i].entities = <<2, 1>>
  /\ \E m \in DOMAIN query_cache :
        /\ query_cache[m].version = world_version
        /\ ResultIds(query_cache[m].result) = <<2, 1>>

(***************************************************************************)
(* C6: after any sequence of add, remove and update_value calls on a       *)
(* column, get_value(e) of every entity e that has a row returns the value *)
(* last written for e by add or update_value; removing another entity      *)
(* never changes it.                                                       *)
(***************************************************************************)
C6_ReadsLastWritten ==
  \A e \in DOMAIN component.entity_to_index :
     /\ e \in DOMAIN last_written
     /\ Component_get_value(component, e) = last_written[e]

\* entity 1, in the middle row, was removed and entity 2 was moved from the
\* last row into its row; entities 0 and 2 read the values written for them
C6_Witness ==
  /\ DOMAIN component.entity_to_index = {0, 2}
  /\ component.entity_to_index[2] = 1
  /\ component.free_slots = <<2>>
  /\ Component_get_value(component, 0) = <<1>>
  /\ Component_get_value(component, 2) = <<2>>
  /\ last_written[2] = <<2>>

(***************************************************************************)
(* C9: an event published with publish_async by a system while a           *)
(* World.update call is running is not delivered during that call; it is   *)
(* delivered during the following World.update call.                       *)
(***************************************************************************)
C9_DeliveredNextTick ==
  \A event \in 1..Len(event_bus.events) :
     LET ev == event_bus.events[event]
     IN ev.by = "system" =>
          /\ \A i \in 1..Len(ev.calls) : ev.calls[i].tick # ev.tick
          /\ (ticks > ev.tick /\ subscribers_get(event_bus, ev.type) # <<>>) =>
                \E i \in 1..Len(ev.calls) : ev.calls[i].tick = ev.tick + 1

(***************************************************************************)
(* C10: double buffering.  An event published with publish_async by a      *)
(* handler while process_async is dispatching is not dispatched in that    *)
(* drain; it is dispatched exactly once by the next drain.                 *)
(***************************************************************************)
C10_DoubleBuffering ==
  \A event \in 1..Len(event_bus.events) :
     LET ev == event_bus.events[event]
     IN (ev.by = "handler" /\ ev.drain > 0) =>
          /\ \A i \in 1..Len(ev.seen) : ev.seen[i].drain # ev.drain
          /\ drains > ev.drain =>
                /\ Len(ev.seen) = 1
                /\ ev.seen[1].drain = ev.drain + 1

(***************************************************************************)
(* Notions used by the properties of the event bus                         *)
(***************************************************************************)
\* the handlers of a list of handler calls, in the order of the calls
HandlersOf(calls) == [i \in 1..Len(calls) |-> calls[i].handler]
\* the handler calls made with event between the bus b and the later bus b2
NewCalls(b, b2, event) ==
  LET before == IF event <= Len(b.events) THEN Len(b.events[event].calls) ELSE 0
  IN HandlersOf(SubSeq(b2.events[event].calls, before + 1,
                       Len(b2.events[event].calls)))
\* the handlers reached when an event is dispatched to handlers: all of them,
\* or those up to the first one that raises
UpToRaise(handlers) ==
  LET booms == {i \in 1..Len(handlers) : handlers[i] = "boom"}
  IN IF booms = {} THEN handlers
     ELSE SubSeq(handlers, 1, CHOOSE i \in booms : \A j \in booms : i <= j)

(***************************************************************************)
(* C11: publish_async(e) invokes no handler; the next process_async        *)
(* delivers e once to each subscription of type(e) (a handler that raises  *)
(* ends the dispatch of its own event); a further process_async with no    *)
(* new publish invokes no handler.                                         *)
(***************************************************************************)
C11_AsyncDeliveredOnce ==
  LET b2 == process_async(event_bus, [drain |-> drains + 1, tick |-> 0])
      b3 == process_async(Settled(b2), [drain |-> drains + 2, tick |-> 0])
  IN /\ \A t \in {"E", "F"} :
          LET b1 == publish_async(event_bus, Outside, t, "caller")
          IN \A event \in 1..Len(b1.events) :
                NewCalls(event_bus, b1, event) = <<>>
     /\ \A i \in 1..Len(event_bus.next_async_queue) :
          LET event == event_bus.next_async_queue[i]
          IN NewCalls(event_bus, b2, event) =
               UpToRaise(subscribers_get(event_bus, event_bus.events[event].type))
     /\ b2.next_async_queue = <<>> =>
          \A event \in 1..Len(b3.events) : NewCalls(b2, b3, event) = <<>>

\* the handler calls of a log, as pairs (event, handler)
HandlerCalls(log) ==
  LET calls == SelectSeq(log, LAMBDA c : c.event # 0)
  IN [i \in 1..Len(calls) |-> <<calls[i].event, calls[i].handler>>]
\* the dispatch of one event in full: its handlers in subscription order
InSubscriptionOrder(b, event) ==
  LET handlers == subscribers_get(b, b.events[event].type)
  IN [i \in 1..Len(handlers) |-> <<event, handlers[i]>>]
\* the dispatch of a queue in full: event after event in queue order
RECURSIVE InQueueOrder(_, _)
InQueueOrder(b, queue) ==
  IF queue = <<>> THEN <<>>
  ELSE InSubscriptionOrder(b, Head(queue)) \o InQueueOrder(b, Tail(queue))

(***************************************************************************)
(* C12: process_async dispatches the queued events in the order they were  *)
(* published, each event to its handlers in subscription order: the calls  *)
(* it makes are, in this order, those of the queue taken event after       *)
(* event, all of them when it returns and the first ones when a handler    *)
(* raises; no call made with a later event precedes a call made with an    *)
(* earlier one.                                                            *)
(***************************************************************************)
C12_FifoDispatch ==
  LET b2 == process_async(Fresh(event_bus), [drain |-> drains + 1, tick |-> 0])
      full == InQueueOrder(event_bus, event_bus.next_async_queue)
      made == HandlerCalls(b2.log)
      done == HandlerCalls(event_bus.log)
  IN /\ IsPrefix(made, full)
     /\ ~b2.raised => made = full
     /\ \A i, j \in 1..Len(done) : i < j => done[i][1] <= done[j][1]
C12_Witness ==
  LET done == HandlerCalls(event_bus.log)
  IN /\ drains = 1
     /\ event_bus.subscribers = Put(EmptyDict, "E", <<"rec", "pub">>)
     /\ done = <<<<1, "rec">>, <<1, "pub">>, <<2, "rec">>, <<2, "pub">>>>
     /\ \A event \in {1, 2} : Len(event_bus.events[event].seen) = 1

(***************************************************************************)
(* Notions used by the properties of the update loop                       *)
(***************************************************************************)
\* the systems updated by a call, in the order of the updates; a system's
\* name is the number of register_system calls made up to its own
Updated(log) ==
  LET calls == SelectSeq(log, LAMBDA c : c.system # 0)
  IN [i \in 1..Len(calls) |-> calls[i].system]
\* the registered system of a name
SystemNamed(name) ==
  systems[CHOOSE i \in 1..Len(systems) : systems[i].name = name]
\* system s is due before system t: lower priority number, or the same
\* priority and registered earlier
DueBefore(s, t) ==
  \/ s.priority < t.priority
  \/ s.priority = t.priority /\ s.name < t.name
\* the updates of update_systems(dt, group) made on the present World
UpdatesOf(group) ==
  Updated(update_systems([w |-> World, b |-> Fresh(event_bus)],
                         [drain |-> 0, tick |-> ticks + 1], systems, group, 1).b.log)

C14_HigherNumberFirst ==
  LET updated == Updated(event_bus.log)
  IN \A i, j \in 1..Len(updated) :
        SystemNamed(updated[i]).priority > SystemNamed(updated[j]).priority
           => i < j

\* the updates that are due when update_systems(dt, group) is called on u,
\* from position i of the list on: those of the enabled systems, of the given
\* group when there is one, up to the first update that raises
RECURSIVE DueUpdates(_, _, _, _)
DueUpdates(u, list, group, i) ==
  IF i > Len(list) THEN <<>>
  ELSE LET system == list[i]
           u1 == system_update(u, [drain |-> 0, tick |-> ticks + 1], system)
       IN IF system.enabled /\ (group = NoGroup \/ system.group = group)
            THEN <<system.name>> \o
                 (IF u1.b.raised THEN <<>> ELSE DueUpdates(u1, list, group, i + 1))
          ELSE DueUpdates(u, list, group, i + 1)

(***************************************************************************)
(* C15: update_systems(dt, group) with a group updates exactly the enabled *)
(* systems of that group, with no group exactly the enabled systems, and   *)
(* never a disabled system (the loop ends at an update that raises).       *)
(***************************************************************************)
C15_ExactlyEnabledOfGroup ==
  \A group \in Groups :
     UpdatesOf(group) =
       DueUpdates([w |-> World, b |-> Fresh(event_bus)], systems, group, 1)

\* the World and its bus once the systems named have been updated one after
\* the other, with nothing done in between
RECURSIVE AfterUpdates(_, _, _)
AfterUpdates(u, at, names) ==
  IF names = <<>> THEN u
  ELSE AfterUpdates(system_update(u, at, SystemNamed(Head(names))), at, Tail(names))

(***************************************************************************)
(* C16: when the update of a system raises during update_systems or        *)
(* update, the error reaches the caller, no system later in the order is   *)
(* updated in that call, and the World is left as the updates made it up   *)
(* to the error: world_version and every mutation are kept.                *)
(***************************************************************************)
C16_RaiseEndsTickNoRollback ==
  \A group \in Groups :
     LET at == [drain |-> 0, tick |-> ticks + 1]
         u0 == [w |-> World, b |-> Fresh(event_bus)]
         u2 == update_systems(u0, at, systems, group, 1)
         updated == Updated(u2.b.log)
         after(k) == AfterUpdates(u0, at, SubSeq(updated, 1, k))
         r == World_update(u0, ticks + 1, drains + 1, systems, group)
     IN /\ \A k \in 0..(Len(updated) - 1) : ~after(k).b.raised
        /\ after(Len(updated)).b.raised =>
             /\ u2.b.raised
             /\ u2 = after(Len(updated))
             /\ r.u = u2
C16_Witness ==
  /\ ticks = 2
  /\ drains = 1
  /\ Updated(event_bus.log) = <<1, 2>>
  /\ SystemNamed(1).kind = "spawn"
  /\ SystemNamed(2).kind = "boom"
  /\ num_entities = 2
  /\ world_version = 2
  /\ failures = 1

(***************************************************************************)
(* C17: publish_sync(e) calls, before it returns, every handler subscribed *)
(* to type(e), in subscription order and once per subscription, and puts   *)
(* e in neither queue: current_async_queue is left as it was and           *)
(* next_async_queue receives nothing but the events that the handlers      *)
(* called publish themselves.  (When a handler raises, the calls made are   *)
(* the first ones of that order.)                                          *)
(***************************************************************************)
C17_SyncDispatch ==
  \A t \in {"E", "F"} :
     LET event == Len(event_bus.events) + 1
         b2 == publish_sync(Fresh(event_bus), Outside, t, "caller")
         made == HandlerCalls(b2.log)
         published == [i \in 1..(Len(b2.events) - event) |-> event + i]
     IN /\ IsPrefix(made, InSubscriptionOrder(b2, event))
        /\ ~b2.raised => made = InSubscriptionOrder(b2, event)
        /\ b2.subscribers = event_bus.subscribers
        /\ b2.current_async_queue = event_bus.current_async_queue
        /\ b2.next_async_queue = event_bus.next_async_queue \o published
        /\ \A i \in 1..Len(published) : b2.events[published[i]].by = "handler"
        /\ Len(published) = Cardinality({i \in 1..Len(made) : made[i][2] = "pub"})
C17_Witness ==
  /\ drains = 0
  /\ event_bus.subscribers = Put(EmptyDict, "E", <<"rec", "pub", "rec">>)
  /\ HandlerCalls(event_bus.log) = <<<<1, "rec">>, <<1, "pub">>, <<1, "rec">>>>
  /\ event_bus.events[1].by = "caller"
  /\ event_bus.current_async_queue = <<>>
  /\ event_bus.next_async_queue = <<2>>

(***************************************************************************)
(* C18: unsubscribe(event_type, handler) removes the first subscription of *)
(* handler for event_type and nothing else, later duplicates and the other *)
(* handlers keeping their order; when handler has no subscription for      *)
(* event_type it raises and leaves the subscriptions unchanged.            *)
(***************************************************************************)
C18_UnsubscribeFirstOrFail ==
  \A i \in SubscribeInputs :
     LET event_type == i[1]
         handler == i[2]
         handlers == subscribers_get(event_bus, event_type)
         found == {k \in 1..Len(handlers) : handlers[k] = handler}
         first == CHOOSE k \in found : \A j \in found : k <= j
         b2 == unsubscribe(Fresh(event_bus), event_type, handler)
     IN IF found # {}
          THEN /\ ~b2.raised
               /\ subscribers_get(b2, event_type) =
                    SubSeq(handlers, 1, first - 1) \o
                    SubSeq(handlers, first + 1, Len(handlers))
               /\ \A t \in DOMAIN event_bus.subscribers \ {event_type} :
                     subscribers_get(b2, t) = event_bus.subscribers[t]
          ELSE /\ b2.raised
               /\ b2.subscribers = event_bus.subscribers

(***************************************************************************)
(* C19: a column rejects add(entity, value) for an entity that already has *)
(* a row: the call raises and leaves size, entity_to_index and free_slots  *)
(* as they were.                                                           *)
(***************************************************************************)
C19_AddRejectsPresent ==
  \A entity_id \in DOMAIN component.entity_to_index, val \in ColumnVals :
     LET r == Component_add(component, ColumnDims, entity_id, val)
     IN /\ r.raised
        /\ r.col.size = component.size
        /\ r.col.entity_to_index = component.entity_to_index
        /\ r.col.free_slots = component.free_slots

(***************************************************************************)
(* C20: add_component and remove_component on an unknown entity id, and    *)
(* add_component of a type the entity already has, raise and leave every   *)
(* field of the World as it was (archetypes, entity_components, columns,   *)
(* world_version, query_cache and the rest).                               *)
(***************************************************************************)
C20_RejectedCallsChangeNothing ==
  /\ \A entity_id \in EntityIds \ LiveIds(World), t \in CompTypes :
        /\ \A val \in ValInputs(t) :
              LET r == add_component(World, entity_id, t, val)
              IN r.raised /\ r.w = World
        /\ LET r == remove_component(World, entity_id, t)
           IN r.raised /\ r.w = World
  /\ \A entity_id \in LiveIds(World) :
        \A t \in ToSet(entity_components[entity_id]) :
           \A val \in ValInputs(t) :
              LET r == add_component(World, entity_id, t, val)
              IN r.raised /\ r.w = World
C20_Witness ==
  /\ failures = 1
  /\ free_ids = <<0>>
  /\ LiveIds(World) = {1}
  /\ entity_components[1] = <<"A", "B">>
  /\ num_entities = 1
  /\ HasRow(World, "A", 1) /\ HasRow(World, "B", 1)
  /\ ~HasRow(World, "A", 0)
  /\ query_cache = EmptyDict

(***************************************************************************)
(* C21: remove_entity on an id that is unknown or already removed, and     *)
(* remove_component of a type the entity does not have, return without     *)
(* error and change nothing: world_version, query_cache, free_ids (the id  *)
(* is not pushed a second time), archetypes and columns are as before.     *)
(***************************************************************************)
C21_AbsentRemovalsChangeNothing ==
  /\ \A entity_id \in EntityIds \ LiveIds(World) :
        LET r == remove_entity(World, entity_id)
        IN ~r.raised /\ r.w = World
  /\ \A entity_id \in LiveIds(World) :
        \A t \in CompTypes \ ToSet(entity_components[entity_id]) :
           LET r == remove_component(World, entity_id, t)
           IN ~r.raised /\ r.w = World

\* id 0 has been removed and id 1 is live without B, with a cached answer that
\* the calls made here leave in place
C21_Witness ==
  /\ free_ids = <<0>>
  /\ LiveIds(World) = {1}
  /\ entity_components[1] = <<"A">>
  /\ query_cache # EmptyDict
  /\ remove_entity(World, 0).w.free_ids = <<0>>
  /\ remove_component(World, 1, "B").w.query_cache = query_cache

(***************************************************************************)
(* C22: create_entity(types, data) followed by remove_entity of the        *)
(* returned id restores the size of every touched column to its value      *)
(* before the create (0 for a column the create brought into being), and   *)
(* the next create_entity returns that same id without advancing           *)
(* next_entity_id.                                                         *)
(***************************************************************************)
C22_CreateRemoveRestores ==
  LET SizeOf(w, t) == IF t \in DOMAIN w.columns THEN w.columns[t].size ELSE 0
      \* the create_entity calls: (types, component_initial_data)
      Creates == {<<<<>>, EmptyDict>>,
                  <<<<"A">>, EmptyDict>>,
                  <<<<"A", "B">>, EmptyDict>>,
                  <<<<"B", "A", "B">>, [t \in {"B"} |-> GoodVal("B")]>>}
  IN \A call \in Creates :
        LET types == call[1]
            c == create_entity(World, types, call[2])
            r == remove_entity(c.w, c.ret[1])
        IN ~c.raised =>
             /\ ~r.raised
             /\ \A t \in ToSet(types) :
                   /\ c.w.columns[t].size = SizeOf(World, t) + 1
                   /\ r.w.columns[t].size = SizeOf(World, t)
             /\ \A again \in CreateLists :
                   LET n == create_entity(r.w, again, EmptyDict)
                   IN ~n.raised =>
                        /\ n.ret = c.ret
                        /\ n.w.next_entity_id = c.w.next_entity_id

\* entity 0 was created with A and B and removed: both columns are back at
\* size 0, and a create_entity call made here returns 0 again
C22_Witness ==
  /\ clean
  /\ world_version = 2
  /\ next_entity_id = 1
  /\ free_ids = <<0>>
  /\ DOMAIN columns = {"A", "B"}
  /\ columns["A"].size = 0 /\ columns["A"].free_slots = <<0>>
  /\ columns["B"].size = 0 /\ columns["B"].free_slots = <<0>>
  /\ LET n == create_entity(World, <<"A", "B">>, EmptyDict)
     IN n.ret = <<0>> /\ n.w.next_entity_id = 1
(***************************************************************************)
(* C23: in a fresh registry the k-th distinct component type to be used    *)
(* (by get_bit, compute_signature, create_entity or query) gets bit        *)
(* 2^(k-1); a type's bit never changes afterwards and no two types ever    *)
(* share a bit; compute_signature gives the same signature for every order *)
(* of a list, 3 for the first two types.                                   *)
(***************************************************************************)
C23_BitsInOrderOfUse ==
  /\ [](LET n == Cardinality(DOMAIN registry.bits)
        IN /\ registry.next_bit = 2 ^ n
           /\ {registry.bits[t] : t \in DOMAIN registry.bits} =
                {2 ^ (k - 1) : k \in 1..n}
           /\ \A t1, t2 \in DOMAIN registry.bits :
                 registry.bits[t1] = registry.bits[t2] => t1 = t2
           /\ \A t1, t2 \in RegistryTypes :
                 LET ab == compute_signature(registry, <<t1, t2>>)
                     ba == compute_signature(registry, <<t2, t1>>)
                     aab == compute_signature(registry, <<t1, t1, t2>>)
                 IN /\ ab.sig = ba.sig
                    /\ aab.sig = ab.sig
                    /\ compute_signature(ab.reg, <<t2, t1>>).sig = ab.sig
                    /\ ab.sig = BitOr(ab.reg.bits[t1], ab.reg.bits[t2])
                    /\ (n = 0 /\ t1 # t2) =>
                          /\ ab.reg.bits[t1] = 1
                          /\ ab.reg.bits[t2] = 2
                          /\ ab.sig = 3
                          /\ ba.sig = 3)
  /\ [][/\ \A t \in DOMAIN registry.bits :
              /\ t \in DOMAIN registry'.bits
              /\ registry'.bits[t] = registry.bits[t]
        /\ \A t \in DOMAIN registry'.bits \ DOMAIN registry.bits :
              registry'.bits[t] >= registry.next_bit]_vars

\* four types got their bits in the order D, B, A, C: D by get_bit or
\* compute_signature, B by a query that was cached, A by a create_entity
C23_Witness ==
  /\ DOMAIN registry.bits = RegistryTypes
  /\ registry.bits["D"] = 1
  /\ registry.bits["B"] = 2
  /\ registry.bits["A"] = 4
  /\ registry.bits["C"] = 8
  /\ 2 \in DOMAIN query_cache
  /\ entity_to_archetype = [e \in {0} |-> 4]
(***************************************************************************)
(* C24: two World instances do not interfere: a call on one World          *)
(* (registering components, assigning bits, creating, changing or removing *)
(* entities) leaves the other World's bit assignments, columns, entities   *)
(* and query results unchanged.                                            *)
(***************************************************************************)
\* World w2 is World w, but for the columns of the types in sh
SameBut(w, w2, sh) ==
  /\ [w2 EXCEPT !.columns = w.columns] = w
  /\ DOMAIN w2.columns = DOMAIN w.columns
  /\ \A t \in DOMAIN w.columns \ sh : w2.columns[t] = w.columns[t]
  /\ \A r \in TypeLists : query(w2, r).ret = query(w, r).ret
\* the claim as stated
C24_WorldsDoNotInterfere ==
  [][SameBut(World, World', {}) \/ SameBut(other, other', {})]_vars
\* the claim as amended: a column whose Component instance the caller
\* registered with both Worlds is the one thing a call on one World changes
\* in the other
C24_OnlySharedInstances ==
  [][SameBut(World, World', shared') \/ SameBut(other, other', shared')]_vars

\* both Worlds hold entities, under bit assignments that differ, and other
\* shares the instance of A with the World: both entities were added to it
C24_Witness ==
  /\ shared = {"A"}
  /\ LiveIds(World) = {0}
  /\ LiveIds(other) = {0}
  /\ other.entity_components[0] = <<"A", "B">>
  /\ registry.bits # other.registry.bits
  /\ columns["A"] = other.columns["A"]
  /\ columns["A"].size = 2
  /\ "B" \in DOMAIN other.columns
  /\ other.columns["B"].size = 1
(***************************************************************************)
(* C25: adding an entity to a column whose size equals its capacity        *)
(* succeeds: the matrix grows so that capacity >= size holds afterwards    *)
(* and every previously stored entity value is still returned unchanged    *)
(* (the array handle is the one ArrayWrapper object throughout).           *)
(***************************************************************************)
C25_AddGrowsFullColumn ==
  component.size = Len(component.array) =>
    \A entity_id \in ColumnEntities \ DOMAIN component.entity_to_index,
       val \in {NoneVal, NumVal(1)} :
       LET r == Component_add(component, ColumnDims, entity_id, val)
       IN /\ ~r.raised
          /\ Len(r.col.array) >= r.col.size
          /\ r.col.size = component.size + 1
          /\ Component_get_value(r.col, entity_id) = Widen(val, ColumnDims)
          /\ \A e \in DOMAIN component.entity_to_index :
                Component_get_value(r.col, e) = Component_get_value(component, e)
(***************************************************************************)
(* C26: for every live entity e, after any sequence of successful World    *)
(* operations, the component types in entity_components[e] have exactly    *)
(* the bits of entity_to_archetype[e].signature (signature 0 for an entity *)
(* whose last component was removed).                                      *)
(***************************************************************************)
C26_SignatureIsComponentBits ==
  clean =>
    /\ DOMAIN entity_to_archetype = LiveIds(World)
    /\ \A e \in LiveIds(World) :
          LET signature == entity_to_archetype[e]
          IN /\ ToSet(entity_components[e]) \subseteq DOMAIN registry.bits
             /\ signature < registry.next_bit
             /\ \A t \in DOMAIN registry.bits :
                   t \in ToSet(entity_components[e])
                     <=> BitAnd(signature, registry.bits[t]) = registry.bits[t]
             /\ (entity_components[e] = <<>>) <=> (signature = 0)

\* one entity lost its last component and has signature 0, another has both
\* components and the signature made of both bits
C26_Witness ==
  /\ clean
  /\ \E e \in LiveIds(World) :
        entity_components[e] = <<>> /\ entity_to_archetype[e] = 0
  /\ \E e \in LiveIds(World) :
        ToSet(entity_components[e]) = {"A", "B"} /\ entity_to_archetype[e] = 3
(***************************************************************************)
(* C27: in every reachable state, every archetype A has a storage list for *)
(* exactly the component types whose bit is set in A.signature and for no  *)
(* other type, and each of those lists has the same length as A.entities.  *)
(***************************************************************************)
C27_StorageMatchesSignature ==
  \A i \in 1..Len(archetypes) :
     LET A == archetypes[i]
     IN /\ A.signature < registry.next_bit
        /\ DOMAIN A.storage =
             {t \in DOMAIN registry.bits :
                BitAnd(A.signature, registry.bits[t]) = registry.bits[t]}
        /\ \A t \in DOMAIN A.storage :
              /\ Len(A.storage[t]) = Len(A.entities)
              /\ \A k \in 1..Len(A.storage[t]) : A.storage[t][k] = t

\* three archetypes exist: that of both types and that of the first type hold
\* one entity each, with one storage list per type of the signature, and the
\* archetype of no component has been entered and left
C27_Witness ==
  /\ \E i \in 1..Len(archetypes) :
        /\ archetypes[i].signature = 3
        /\ Len(archetypes[i].entities) = 1
        /\ DOMAIN archetypes[i].storage = {"A", "B"}
  /\ \E i \in 1..Len(archetypes) :
        /\ archetypes[i].signature = 1
        /\ Len(archetypes[i].entities) = 1
        /\ Cardinality(DOMAIN archetypes[i].storage) = 1
  /\ \E i \in 1..Len(archetypes) :
        /\ archetypes[i].signature = 0
        /\ archetypes[i].entities = <<>>
        /\ archetypes[i].storage = EmptyDict
(***************************************************************************)
(* C28: in every reachable state, for every archetype A, index_map is the  *)
(* exact inverse of entities: A.entities has no duplicate, index_map[e] = i*)
(* for the entity e at each position i, and index_map has no key that is   *)
(* not in entities; this holds across swap-with-last removals.             *)
(***************************************************************************)
C28_IndexMapInvertsEntities ==
  \A i \in 1..Len(archetypes) :
     LET A == archetypes[i]
     IN /\ \A j, k \in 1..Len(A.entities) :
              A.entities[j] = A.entities[k] => j = k
        /\ DOMAIN A.index_map = ToSet(A.entities)
        /\ \A k \in 1..Len(A.entities) : A.index_map[A.entities[k]] = k - 1

\* entity 0 left an archetype of three entities and the last one, entity 2,
\* was moved to position 0, ahead of entity 1
C28_Witness ==
  /\ free_ids = <<0>>
  /\ \E i \in 1..Len(archetypes) :
        /\ archetypes[i].entities = <<2, 1>>
        /\ archetypes[i].index_map[2] = 0
        /\ archetypes[i].index_map[1] = 1
(***************************************************************************)
(* C29: for every component column, after any sequence of valid add and    *)
(* remove calls: size equals the number of keys of entity_to_index, the    *)
(* row indices in use are exactly 0..size-1 with no two entities sharing a *)
(* row, and no index in free_slots is in use.  A valid add is one for an   *)
(* entity that has no row.  The property holds for the new column and each *)
(* valid call made on a column that has it leaves a column that has it.    *)
(***************************************************************************)
RowsDense(col) ==
  LET rows == {col.entity_to_index[e] : e \in DOMAIN col.entity_to_index}
  IN /\ col.size = Cardinality(DOMAIN col.entity_to_index)
     /\ rows = 0..(col.size - 1)
     /\ \A e1, e2 \in DOMAIN col.entity_to_index :
           col.entity_to_index[e1] = col.entity_to_index[e2] => e1 = e2
     /\ ToSet(col.free_slots) \cap rows = {}
C29_ValidCallsKeepRowsDense ==
  /\ RowsDense(Component_init(ColumnDims))
  /\ RowsDense(component) =>
        /\ \A entity_id \in ColumnEntities \ DOMAIN component.entity_to_index,
              val \in ColumnVals :
              RowsDense(Component_add(component, ColumnDims, entity_id, val).col)
        /\ \A entity_id \in ColumnEntities :
              RowsDense(Component_remove(component, entity_id))

\* entities 0, 1 and 2 were added, 0 was removed and 2 was moved into its
\* row, then 1 was removed: one row is in use and two are free
C29_Witness ==
  /\ RowsDense(component)
  /\ DOMAIN component.entity_to_index = {2}
  /\ component.entity_to_index[2] = 0
  /\ component.free_slots = <<2, 1>>
  /\ component.size = 1
(***************************************************************************)
(* C30: in every reachable column state, every row that is not the row of  *)
(* a live entity (never used, or vacated by a removal) holds the sentinel  *)
(* NaN in all its lanes.                                                   *)
(***************************************************************************)
C30_AbsentRowsHoldNaN ==
  LET rows == {component.entity_to_index[e] : e \in DOMAIN component.entity_to_index}
  IN \A i \in 1..Len(component.array) :
        (i - 1) \notin rows => component.array[i] = NanRow(ColumnDims)
(***************************************************************************)
(* C31: ensure_capacity(min_rows) on a matrix of capacity c < min_rows     *)
(* yields an integer capacity equal to max(min_rows, ceil(1.5 * c)), keeps *)
(* rows 0..c-1 unchanged and fills the new rows with the sentinel; when    *)
(* c >= min_rows it changes nothing.                                       *)
(***************************************************************************)
C31_EnsureCapacityGrows ==
  \A min_rows \in 0..(MaxEntity + 2) :
     LET c == Len(component.array)
         ceiling == (ScaleNum * c + ScaleDen - 1) \div ScaleDen
         r == ensure_capacity(component.array, ColumnDims, min_rows)
     IN /\ ~r.raised
        /\ IF c >= min_rows THEN r.array = component.array
           ELSE /\ Len(r.array) = IF min_rows >= ceiling THEN min_rows ELSE ceiling
                /\ SubSeq(r.array, 1, c) = component.array
                /\ \A i \in (c + 1)..Len(r.array) : r.array[i] = NanRow(ColumnDims)
(***************************************************************************)
(* C32: a system that has no group is skipped without error by             *)
(* update_systems(dt, group) when group is non-null (the call raises only  *)
(* when an update it made raised), and is updated when group is null.      *)
(***************************************************************************)
C32_NoGroupSkippedQuietly ==
  LET at == [drain |-> 0, tick |-> ticks + 1]
      u0 == [w |-> World, b |-> Fresh(event_bus)]
  IN /\ \A group \in Groups \ {NoGroup} :
           LET u2 == update_systems(u0, at, systems, group, 1)
               updated == Updated(u2.b.log)
           IN /\ \A i \in 1..Len(updated) : SystemNamed(updated[i]).group # NoGroup
              /\ u2.b.raised => AfterUpdates(u0, at, updated).b.raised
     /\ UpdatesOf(NoGroup) = DueUpdates(u0, systems, NoGroup, 1)
(***************************************************************************)
(* C33: if a handler raises during publish_sync, the exception reaches the *)
(* caller and the handlers later in subscription order are not invoked for *)
(* that event; the subscriptions and both async queues are unchanged.      *)
(* (Stated for handlers that do not themselves change the bus before the   *)
(* raise: "rec" and "boom".)                                               *)
(***************************************************************************)
C33_SyncRaiseStopsDispatch ==
  LET handlers == subscribers_get(event_bus, "F")
      raising == {i \in 1..Len(handlers) : handlers[i] = "boom"}
      b == publish_sync(Fresh(event_bus), Outside, "F", "caller")
      event == Len(event_bus.events) + 1
  IN (raising # {} /\ \A i \in 1..Len(handlers) : handlers[i] \in {"rec", "boom"})
       => LET first == CHOOSE i \in raising : \A j \in raising : i <= j
          IN /\ b.raised
             /\ b.log = [i \in 1..first |->
                           [event |-> event, handler |-> handlers[i], system |-> 0]]
             /\ b.subscribers = event_bus.subscribers
             /\ b.current_async_queue = event_bus.current_async_queue
             /\ b.next_async_queue = event_bus.next_async_queue
\* publish_sync has raised at the first of three handlers, with an event
\* waiting in the queue
C33_Witness ==
  /\ subscribers_get(event_bus, "F") = <<"boom", "rec", "rec">>
  /\ event_bus.next_async_queue # <<>>
  /\ event_bus.log = <<[event |-> Len(event_bus.events), handler |-> "boom",
                        system |-> 0]>>
  /\ event_bus.events[Len(event_bus.events)].drain = 0
  /\ event_bus.events[Len(event_bus.events)].calls # <<>>
  /\ ~(\E i \in 1..Len(event_bus.next_async_queue) :
          event_bus.next_async_queue[i] = Len(event_bus.events))
(***************************************************************************)
(* C34: entity ids are never aliased while live: in every reachable state  *)
(* free_ids holds no id twice and no live id, the live ids and free_ids    *)
(* together are exactly 0..next_entity_id-1, and create_entity never       *)
(* returns the id of a live entity.                                        *)
(***************************************************************************)
C34_IdsNeverAliased ==
  LET live == DOMAIN entity_to_archetype
      free == {free_ids[i] : i \in 1..Len(free_ids)}
      r == create_entity(World, <<"A">>, EmptyDict)
  IN /\ \A i, j \in 1..Len(free_ids) : i # j => free_ids[i] # free_ids[j]
     /\ free \cap live = {}
     /\ live \cup free = 0..(next_entity_id - 1)
     /\ ~r.raised => /\ r.ret[1] \notin live
                     /\ r.ret[1] \in DOMAIN r.w.entity_to_archetype
\* one id is live and the other is free: create_entity issues the free one
C34_Witness ==
  /\ next_entity_id = 2
  /\ Len(free_ids) = 1
  /\ Cardinality(DOMAIN entity_to_archetype) = 1
  /\ create_entity(World, <<"A">>, EmptyDict).ret = <<free_ids[1]>>
  /\ failures = 0
(***************************************************************************)
(* C35: after any sequence of successful World operations, entity e has a  *)
(* row in the column of type T exactly when e is live and T is in          *)
(* entity_components[e]; a removed id has no row in any column, so an id   *)
(* that is issued again gets the values of its own creation, never those   *)
(* of the entity that had the id before.                                   *)
(***************************************************************************)
C35_RowsMatchComponents ==
  clean =>
    /\ \A t \in DOMAIN columns, e \in 0..next_entity_id :
          HasRow(World, t, e) <=>
            (e \in LiveIds(World) /\ t \in ToSet(entity_components[e]))
    /\ free_ids # <<>> =>
          LET r == create_entity(World, <<"A", "B">>, EmptyDict)
              e == Last(free_ids)
          IN ~r.raised =>
               /\ r.ret = <<e>>
               /\ \A t \in {"A", "B"} :
                     Component_get_value(r.w.columns[t], e) = default(dimensions(t))
\* id 0 was removed while it had rows in both columns; the value it had in
\* B is still in the matrix of the column, in the row the next add takes
C35_Witness ==
  /\ clean
  /\ free_ids = <<0>>
  /\ DOMAIN columns = {"A", "B"}
  /\ columns["B"].size = 0
  /\ columns["B"].array[1] = GoodVal("B").v
  /\ ~create_entity(World, <<"A", "B">>, EmptyDict).raised
(***************************************************************************)
(* C36: the query cache never serves a stale result after a failed         *)
(* mutation: when create_entity or add_component has raised part-way       *)
(* (initial data of a wrong length) after changing archetype membership,   *)
(* every later query that returns still returns the list an uncached scan  *)
(* of the archetypes gives.                                                *)
(***************************************************************************)
C36_NoStaleResultAfterFailure ==
  \A r \in QueryLists :
     LET q == query(World, r)
     IN ~q.raised => q.ret = FreshScan(World, r)
(***************************************************************************)
(* C37: dispatch works on the subscribers as they were when the dispatch   *)
(* started: when a handler subscribes or unsubscribes handlers of the type *)
(* of the event during a dispatch by publish_sync, every handler that was  *)
(* subscribed at the start and is not unsubscribed is still invoked        *)
(* exactly once for each of its subscriptions, none is skipped and none    *)
(* subscribed during the dispatch is invoked.                              *)
(***************************************************************************)
C37_DispatchOnSnapshot ==
  LET handlers == subscribers_get(event_bus, "F")
      b == publish_sync(Fresh(event_bus), Outside, "F", "caller")
      Calls(h) == Cardinality({i \in 1..Len(b.log) : b.log[i].handler = h})
      Subscribed(h) == Cardinality({i \in 1..Len(handlers) : handlers[i] = h})
  IN "boom" \notin ToSet(handlers) =>
       \A h \in ToSet(handlers) \ {"once"} : Calls(h) = Subscribed(h)
(***************************************************************************)
(* C38: no accepted async event is lost: every event accepted by           *)
(* publish_async is dispatched by some later drain as long as drains keep  *)
(* being called, even when a handler raised during a drain; the events     *)
(* queued behind the failing event are dispatched by a subsequent drain.   *)
(* Checked over the next two drains: each queued event has been reached by *)
(* one of them, or is still in the queue the following drain takes.        *)
(***************************************************************************)
C38_NoAcceptedEventLost ==
  LET b2 == process_async(Fresh(event_bus), [drain |-> drains + 1, tick |-> 0])
      b3 == process_async(Fresh(Settled(b2)), [drain |-> drains + 2, tick |-> 0])
  IN \A i \in 1..Len(event_bus.next_async_queue) :
        LET event == event_bus.next_async_queue[i]
        IN \/ b3.events[event].seen # <<>>
           \/ event \in ToSet(b3.next_async_queue)
(***************************************************************************)
(* C39: when the update of a system raises during World.update, the event  *)
(* bus is not drained in that call and the queued async events stay        *)
(* queued, unchanged and in order, with no handler called; the next update *)
(* call that completes delivers each of them exactly once.                 *)
(***************************************************************************)
C39_FailedUpdateKeepsQueue ==
  \A group \in Groups :
     LET u0 == [w |-> World, b |-> Fresh(event_bus)]
         queued == event_bus.next_async_queue
         failed == update_systems(u0, [drain |-> 0, tick |-> ticks + 1], systems,
                                  group, 1).b.raised
         r == World_update(u0, ticks + 1, drains + 1, systems, group)
     IN failed =>
          /\ ~r.drained
          /\ r.u.b.raised
          /\ HandlerCalls(r.u.b.log) = <<>>
          /\ IsPrefix(queued, r.u.b.next_async_queue)
          /\ r.u.b.current_async_queue = event_bus.current_async_queue
          /\ \A i \in 1..Len(queued) :
                r.u.b.events[queued[i]] = event_bus.events[queued[i]]
          /\ \A again \in Groups :
                LET r2 == World_update([w |-> r.u.w, b |-> Fresh(Settled(r.u.b))],
                                       ticks + 2, drains + 1, systems, again)
                IN ~r2.u.b.raised =>
                     /\ r2.drained
                     /\ \A i \in 1..Len(queued) :
                           LET event == queued[i]
                               ev == event_bus.events[event]
                           IN /\ NewCalls(r.u.b, r2.u.b, event) =
                                   subscribers_get(event_bus, ev.type)
                              /\ r2.u.b.events[event].seen =
                                   Append(ev.seen, [drain |-> drains + 1,
                                                    tick |-> ticks + 2])
                              /\ event \notin ToSet(r2.u.b.next_async_queue)
                              /\ event \notin ToSet(r2.u.b.current_async_queue)
\* an update call has raised after a system had published an event: the
\* event is queued with a handler subscribed, and no drain has run
C39_Witness ==
  /\ ticks = 1
  /\ drains = 0
  /\ failures = 1
  /\ event_bus.next_async_queue = <<1>>
  /\ event_bus.events[1].by = "system"
  /\ event_bus.events[1].calls = <<>>
  /\ subscribers_get(event_bus, "E") = <<"rec">>
  /\ \E group \in Groups :
        ~World_update([w |-> World, b |-> Fresh(event_bus)], 2, 1, systems,
                      group).u.b.raised
\* a drain whose handlers only publish comes to its end: the events they
\* publish go to _next_async_queue, which the running call does not read
PublishingDrainEnds ==
  (frame.running /\ "again" \notin ToSet(subscribers_get(event_bus, "F")))
     ~> ~frame.running
\* the inner loop of a running drain has handlers left to call, and each of
\* them subscribes, when called, one more handler of its own kind
EndlessDispatch ==
  /\ frame.running
  /\ frame.event >= 1
  /\ frame.handler <= Len(FrameHandlers)
  /\ \A i \in frame.handler..Len(FrameHandlers) : FrameHandlers[i] = "again"
\* such a dispatch cannot end: every step the call takes from it is a handler
\* call of the same dispatch, and leaves it as it was, one position further
\* in a list that is one entry longer
EndlessDispatchStays ==
  [][EndlessDispatch =>
       /\ EndlessDispatch'
       /\ frame'.event = frame.event
       /\ Len(FrameHandlers') - frame'.handler = Len(FrameHandlers) - frame.handler]_vars

(***************************************************************************)
(* C40: a drain always terminates: with handlers that each return, a       *)
(* process_async call over a finite queue comes to its end, also when the  *)
(* handlers publish a new async event on each invocation.  A call that     *)
(* always comes to its end never gets into a dispatch that cannot end.     *)
(***************************************************************************)
C40_DrainTerminates == ~EndlessDispatch
====
